---------------------------- MODULE Spec2Model ----------------------------
(***************************************************************************)
(* A model of the mosaic pipeline of Tannybuoy/mosaic:                     *)
(*   src/src/utils/color.ts   colour averaging and nearest-colour search   *)
(*   src/src/utils/mosaic.ts  preprocessTiles, generateMosaic              *)
(*   src/src/utils/gif.ts     renderZoomFrames, encodeGif, generateGif     *)
(*                                                                         *)
(* JavaScript numbers are modelled as exact extended rationals <<n, d>>:   *)
(* d > 0 is the rational n/d in lowest terms, <<1,0>> is +Infinity,        *)
(* <<-1,0>> is -Infinity and <<0,0>> is NaN.  IEEE rounding of finite      *)
(* results is not modelled; the special values and their propagation are.  *)
(***************************************************************************)
EXTENDS Integers, Sequences, FiniteSets, TLC

VARIABLES
    \* ---- color.ts : one call of findClosestColor
    cpc,        \* "call" | "returned"
    cTarget,    \* the RGB target
    cPalette,   \* the palette, a sequence of RGB
    cResult,    \* [outcome |-> "none" | "value" | "throw", index |-> Int]
    cData,      \* the samples of the ImageData given to getAverageColor
    cAverage,   \* what getAverageColor returned / threw
    \* ---- mosaic.ts : preprocessTiles followed by generateMosaic
    mpc,        \* position of the pipeline
    mIn,        \* the inputs of the run
    mTiles,     \* tiles pushed so far by preprocessTiles
    mPre,       \* what preprocessTiles returned / threw
    mGrid,      \* the grid computed by generateMosaic
    mCanvases,  \* number of canvases generateMosaic has created
    mStart,     \* startCell of generateMosaic's chunk loop
    mCell,      \* cellIndex of generateMosaic's inner loop
    mPlaced,    \* per processed cell: the tile index drawn
    mOut,       \* what generateMosaic returned / threw
    mSince,     \* cells processed since generateMosaic last yielded
    mReports,   \* the calls of onProgress made by generateMosaic
    mPrev,      \* what the previous generateMosaic run with the same inputs gave
    mAlpha,     \* globalAlpha of the mosaic canvas's context
    \* ---- gif.ts : renderZoomFrames
    rpc,        \* position of renderZoomFrames
    rIn,        \* the mosaic canvas size and the GifConfig
    rI,         \* loop variable i of renderZoomFrames
    rFrames,    \* frames pushed so far
    rOut,       \* what renderZoomFrames returned / threw
    rPrev,      \* what the previous call with the same inputs returned
    rSince,     \* frames rendered since renderZoomFrames last yielded
    rReports,   \* the calls of onProgress made by renderZoomFrames
    \* ---- gif.ts : generateGif and encodeGif
    gpc,        \* position of generateGif
    gAttempt,   \* loop variable i of generateGif's attempts loop (0-based)
    gEnc,       \* the encodeGif calls made so far, in order
    gOut,       \* what generateGif returned / threw
    \* ---- App and UploadPanel : the state of the page and its handlers
    goalImage,          \* the goal image File, or Null
    tilePhotos,         \* the tile photo Files, in order
    mosaicCanvas,       \* the canvas of the mosaic shown, or Null
    isGenerating,       \* the busy flag of handleGenerateMosaic
    preprocessedTiles,  \* the tiles stored by setPreprocessedTiles, or Null
    isExporting,        \* the busy flag of handleExportGif
    gifBlob,            \* the Blob offered for download, or Null
    genPc,              \* the await at which handleGenerateMosaic is suspended
    genRun,             \* the number of the handleGenerateMosaic run in flight
    expPc,              \* the await at which handleExportGif is suspended
    expMosaic,          \* the mosaicCanvas the handleExportGif run in flight closed over
    runs,               \* the handleGenerateMosaic runs started so far
    lastGen             \* how the last finished handleGenerateMosaic run ended

cvars == <<cpc, cTarget, cPalette, cResult, cData, cAverage>>
mvars == <<mpc, mIn, mTiles, mPre, mGrid, mCanvases, mStart, mCell, mPlaced, mOut,
          mSince, mReports, mPrev, mAlpha>>
rvars == <<rpc, rIn, rI, rFrames, rOut, rPrev, rSince, rReports>>
gvars == <<gpc, gAttempt, gEnc, gOut>>
avars == <<goalImage, tilePhotos, mosaicCanvas, isGenerating, preprocessedTiles,
          isExporting, gifBlob, genPc, genRun, expPc, expMosaic, runs, lastGen>>
vars == <<cvars, mvars, rvars, gvars, avars>>

--------------------------------------------------------------------------
(* Numbers *)

Abs(n) == IF n < 0 THEN -n ELSE n

Sgn(n) == IF n < 0 THEN -1 ELSE IF n > 0 THEN 1 ELSE 0

RECURSIVE GCD(_, _)
GCD(a, b) == IF b = 0 THEN a ELSE GCD(b, a % b)

\* n/d in lowest terms with a positive denominator; d = 0 gives NaN or an infinity
Norm(n, d) ==
    IF d = 0 THEN <<Sgn(n), 0>>
    ELSE LET g == GCD(Abs(n), Abs(d))
             s == IF d < 0 THEN -1 ELSE 1
         IN <<(s * n) \div g, (s * d) \div g>>

NaN == <<0, 0>>
PosInf == <<1, 0>>
R(n) == <<n, 1>>
IsNaN(x) == x = NaN
IsFin(x) == x[2] # 0

RNeg(x) == <<-x[1], x[2]>>

RAdd(x, y) ==
    IF IsFin(x) /\ IsFin(y)
    THEN LET g == GCD(x[2], y[2])
         IN Norm(x[1] * (y[2] \div g) + y[1] * (x[2] \div g), (x[2] \div g) * y[2])
    ELSE IF IsNaN(x) \/ IsNaN(y) THEN NaN
    ELSE IF IsFin(x) THEN y
    ELSE IF IsFin(y) THEN x
    ELSE IF x = y THEN x ELSE NaN

RSub(x, y) == RAdd(x, RNeg(y))

RMul(x, y) ==
    IF IsFin(x) /\ IsFin(y)
    THEN LET a == Norm(x[1], y[2])
             b == Norm(y[1], x[2])
         IN Norm(a[1] * b[1], a[2] * b[2])
    ELSE IF IsNaN(x) \/ IsNaN(y) THEN NaN
    ELSE Norm(Sgn(x[1]) * Sgn(y[1]), 0)

\* x / y as IEEE division does it: 0/0 is NaN, x/0 an infinity, x/Infinity 0
RDiv(x, y) ==
    IF IsNaN(x) \/ IsNaN(y) THEN NaN
    ELSE IF ~IsFin(x) /\ ~IsFin(y) THEN NaN
    ELSE IF ~IsFin(y) THEN R(0)
    ELSE IF ~IsFin(x) THEN Norm(x[1] * (IF y[1] < 0 THEN -1 ELSE 1), 0)
    ELSE IF y[1] = 0 THEN Norm(x[1], 0)
    ELSE RMul(x, Norm(y[2], y[1]))

\* x < y; false as soon as one side is NaN
RLess(x, y) ==
    IF IsNaN(x) \/ IsNaN(y) THEN FALSE
    ELSE IF ~IsFin(x) /\ ~IsFin(y) THEN x[1] < y[1]
    ELSE IF ~IsFin(x) THEN x[1] < 0
    ELSE IF ~IsFin(y) THEN y[1] > 0
    ELSE RSub(x, y)[1] < 0

RLeq(x, y) == ~IsNaN(x) /\ ~IsNaN(y) /\ ~RLess(y, x)

\* Math.min and Math.max of two numbers: NaN if either is NaN
MathMin(x, y) == IF IsNaN(x) \/ IsNaN(y) THEN NaN ELSE IF RLess(y, x) THEN y ELSE x

MathMax(x, y) == IF IsNaN(x) \/ IsNaN(y) THEN NaN ELSE IF RLess(x, y) THEN y ELSE x

\* Math.floor; TLA+'s \div rounds towards minus infinity
MathFloor(x) == IF IsFin(x) THEN R(x[1] \div x[2]) ELSE x

\* Math.round: the nearest integer, ties towards plus infinity
MathRound(x) == IF IsFin(x) THEN R((2 * x[1] + x[2]) \div (2 * x[2])) ELSE x

\* Math.pow(x, 3)
Cube(x) == RMul(x, RMul(x, x))

--------------------------------------------------------------------------
(* color.ts *)

\* interface RGB; the channels are numbers
RGB(r, g, b) == [r |-> r, g |-> g, b |-> b]

\* one RGBA sample of an ImageData (four consecutive bytes of imageData.data)
Pixel(r, g, b, a) == [r |-> r, g |-> g, b |-> b, a |-> a]

\* the sum the loop of getAverageColor accumulates in one channel over the
\* samples lo..hi.  The addends are integers below 256, so the double sum is
\* exact and does not depend on the order of the additions; the range is
\* split in halves to keep the evaluation shallow.
RECURSIVE SumChannel(_, _, _, _)
SumChannel(data, ch, lo, hi) ==
    IF lo > hi THEN 0
    ELSE IF lo = hi THEN data[lo][ch]
    ELSE LET mid == (lo + hi) \div 2
         IN SumChannel(data, ch, lo, mid) + SumChannel(data, ch, mid + 1, hi)

\* a variant of getAverageColor that truncates the mean
getAverageColorFloor(data) ==
    LET pixels == Len(data)
    IN RGB(MathFloor(RDiv(R(SumChannel(data, "r", 1, pixels)), R(pixels))),
           MathFloor(RDiv(R(SumChannel(data, "g", 1, pixels)), R(pixels))),
           MathFloor(RDiv(R(SumChannel(data, "b", 1, pixels)), R(pixels))))

\* getAverageColor: per channel Math.round(sum / pixels), alpha not read;
\* data is the sequence of samples, pixels = imageData.data.length / 4
getAverageColor(data) ==
    LET pixels == Len(data)
    IN RGB(MathRound(RDiv(R(SumChannel(data, "r", 1, pixels)), R(pixels))),
           MathRound(RDiv(R(SumChannel(data, "g", 1, pixels)), R(pixels))),
           MathRound(RDiv(R(SumChannel(data, "b", 1, pixels)), R(pixels))))

\* colorDistance returns Math.sqrt(dr*dr + dg*dg + db*db).  The model keeps
\* the radicand: Math.sqrt is strictly increasing, maps the distinct integer
\* radicands of 8-bit channels to distinct doubles, and maps NaN to NaN and
\* Infinity to Infinity, so every comparison of two distances has the outcome
\* of comparing their radicands.
colorDistance(c1, c2) ==
    LET dr == RSub(c1.r, c2.r)
        dg == RSub(c1.g, c2.g)
        db == RSub(c1.b, c2.b)
    IN RAdd(RAdd(RMul(dr, dr), RMul(dg, dg)), RMul(db, db))

\* a variant of the comparison that also replaces on an equal distance
closerOrEqual(distance, minDistance) == RLeq(distance, minDistance)

\* the test `distance < minDistance` of findClosestColor
closer(distance, minDistance) == RLess(distance, minDistance)

\* the for loop of findClosestColor from index i on (i is 0-based as in the code)
RECURSIVE findClosestLoop(_, _, _, _, _)
findClosestLoop(target, palette, i, minDistance, closestIndex) ==
    IF ~(i < Len(palette)) THEN closestIndex
    ELSE LET distance == colorDistance(target, palette[i + 1])
         IN IF closer(distance, minDistance)
            THEN findClosestLoop(target, palette, i + 1, distance, i)
            ELSE findClosestLoop(target, palette, i + 1, minDistance, closestIndex)

\* findClosestColor: minDistance = Infinity, closestIndex = 0, then the loop.
\* The function has no throw statement: its outcome is always a value.
findClosestColor(target, palette) ==
    [outcome |-> "value", index |-> findClosestLoop(target, palette, 0, PosInf, 0)]

\* a number in a template literal; after Math.round a channel is an integer,
\* NaN or an infinity
NumberToString(x) ==
    IF IsNaN(x) THEN "NaN"
    ELSE IF ~IsFin(x) THEN (IF x[1] > 0 THEN "Infinity" ELSE "-Infinity")
    ELSE IF x[2] = 1 THEN ToString(x[1])
    ELSE ToString(x[1]) \o "/" \o ToString(x[2])

\* rgbToString: `rgb(${color.r}, ${color.g}, ${color.b})`
rgbToString(color) ==
    "rgb(" \o NumberToString(color.r) \o ", " \o NumberToString(color.g) \o ", "
           \o NumberToString(color.b) \o ")"

--------------------------------------------------------------------------
(* Inputs of the colour checks *)

MaxPalette == 3

\* channel values of the colours tried
Channels == {0, 255}

Colours == {RGB(R(r), R(g), R(b)) : r \in Channels, g \in Channels, b \in Channels}

SeqsUpTo(S, n) == UNION {[1..k -> S] : k \in 0..n}

ColorIdle ==
    /\ cpc = "idle"
    /\ cTarget = RGB(R(0), R(0), R(0))
    /\ cPalette = <<>>
    /\ cResult = [outcome |-> "none", index |-> 0]
    /\ cData = <<>>
    /\ cAverage = [outcome |-> "none"]

ColorInit ==
    /\ cpc = "call"
    /\ cTarget \in Colours
    /\ cPalette \in SeqsUpTo(Colours, MaxPalette)
    /\ cResult = [outcome |-> "none", index |-> 0]
    /\ cData = <<>>
    /\ cAverage = [outcome |-> "none"]

\* the call findClosestColor(cTarget, cPalette) returns
FindClosest ==
    /\ cpc = "call"
    /\ cResult' = findClosestColor(cTarget, cPalette)
    /\ cpc' = "returned"
    /\ UNCHANGED <<avars, cTarget, cPalette, cData, cAverage, mvars, rvars, gvars>>

MaxPixels == 3

\* RGBA samples tried: black, white, near-black values and a transparent one
Samples ==
    { Pixel(0, 0, 0, 255), Pixel(255, 255, 255, 255), Pixel(1, 0, 255, 0),
      Pixel(2, 4, 7, 128), Pixel(0, 1, 0, 255) }

\* the state in which getAverageColor(imageData) has just been called
AverageInit ==
    /\ cpc = "average"
    /\ cTarget = RGB(R(0), R(0), R(0))
    /\ cPalette = <<>>
    /\ cResult = [outcome |-> "none", index |-> 0]
    /\ cData \in SeqsUpTo(Samples, MaxPixels)
    /\ cAverage = [outcome |-> "none"]

\* the call getAverageColor(imageData) returns; the function has no throw
\* statement
GetAverage ==
    /\ cpc = "average"
    /\ cAverage' = [outcome |-> "value", color |-> getAverageColor(cData)]
    /\ cpc' = "averaged"
    /\ UNCHANGED <<avars, cTarget, cPalette, cResult, cData, mvars, rvars, gvars>>

--------------------------------------------------------------------------
(* mosaic.ts : preprocessTiles *)

\* A decoded image: its size and its content.  The content is one colour, so
\* that the browser's resampling (drawImage) has a known result.
Image(w, h, col) == [w |-> w, h |-> h, col |-> col]

\* The samples ctx.getImageData(0, 0, n, n) reads after
\* ctx.drawImage(source, sx, sy, size, size, 0, 0, n, n) on a fresh canvas.
\* A source without pixels (zero width or height) is not drawn and drawImage
\* does not throw (HTML standard, "check the usability of the image argument":
\* bad, so return), which leaves the canvas transparent black.
drawnSquare(source, n) ==
    [k \in 1..(n * n) |->
        IF source.w = 0 \/ source.h = 0
        THEN Pixel(0, 0, 0, 0)
        ELSE Pixel(source.col.r, source.col.g, source.col.b, 255)]

\* a variant of the loop body that walks the images from the last to the first
preprocessOneReversed(images, i, tileSize) ==
    LET source == images[Len(images) - i]
        size == MathMin(R(source.w), R(source.h))
        sx == RDiv(RSub(R(source.w), size), R(2))
        sy == RDiv(RSub(R(source.h), size), R(2))
        imageData == drawnSquare(source, tileSize)
    IN [canvas |-> [width |-> tileSize, height |-> tileSize, data |-> imageData],
        averageColor |-> getAverageColor(imageData),
        originalFile |-> Len(images) - i - 1,
        crop |-> [sx |-> sx, sy |-> sy, size |-> size]]

\* the body of preprocessTiles' loop for images[i] (0-based i): the TileData pushed
preprocessOne(images, i, tileSize) ==
    LET source == images[i + 1]
        size == MathMin(R(source.w), R(source.h))
        sx == RDiv(RSub(R(source.w), size), R(2))
        sy == RDiv(RSub(R(source.h), size), R(2))
        imageData == drawnSquare(source, tileSize)
    IN [canvas |-> [width |-> tileSize, height |-> tileSize, data |-> imageData],
        averageColor |-> getAverageColor(imageData),
        originalFile |-> i,
        crop |-> [sx |-> sx, sy |-> sy, size |-> size]]

--------------------------------------------------------------------------
(* mosaic.ts : generateMosaic *)

\* const chunkSize = 100
chunkSize == 100

\* The colour of the scaled goal image in the cell (gridX, gridY): the goal
\* images tried are patterns of two colours.
GoalColours == <<Pixel(250, 10, 10, 255), Pixel(10, 10, 250, 255)>>

goalCell(pattern, gridX, gridY) ==
    GoalColours[((gridX * pattern.px + gridY * pattern.py + pattern.p0) % 2) + 1]

\* goalCtx.getImageData(x, y, tileSize, tileSize) for the cell at (x, y)
regionData(pattern, gridX, gridY, tileSize) ==
    [k \in 1..(tileSize * tileSize) |-> goalCell(pattern, gridX, gridY)]

\* a variant of the grid that rounds the quotients to the nearest integer
gridOfRounded(goal, outputWidth, tileSize) ==
    LET aspectRatio == RDiv(R(goal.h), R(goal.w))
        outputHeight == MathRound(RMul(R(outputWidth), aspectRatio))
        gridWidth == MathRound(RDiv(R(outputWidth), R(tileSize)))
        gridHeight == MathRound(RDiv(outputHeight, R(tileSize)))
    IN [outputHeight |-> outputHeight[1],
        gridWidth |-> gridWidth[1],
        gridHeight |-> gridHeight[1],
        actualWidth |-> gridWidth[1] * tileSize,
        actualHeight |-> gridHeight[1] * tileSize,
        totalCells |-> gridWidth[1] * gridHeight[1]]

\* lines 86-94 and 112: the output size and the grid
gridOf(goal, outputWidth, tileSize) ==
    LET aspectRatio == RDiv(R(goal.h), R(goal.w))
        outputHeight == MathRound(RMul(R(outputWidth), aspectRatio))
        gridWidth == MathFloor(RDiv(R(outputWidth), R(tileSize)))
        gridHeight == MathFloor(RDiv(outputHeight, R(tileSize)))
    IN [outputHeight |-> outputHeight[1],
        gridWidth |-> gridWidth[1],
        gridHeight |-> gridHeight[1],
        actualWidth |-> gridWidth[1] * tileSize,
        actualHeight |-> gridHeight[1] * tileSize,
        totalCells |-> gridWidth[1] * gridHeight[1]]

NoGrid ==
    [outputHeight |-> 0, gridWidth |-> 0, gridHeight |-> 0,
     actualWidth |-> 0, actualHeight |-> 0, totalCells |-> 0]

NoResult == [outcome |-> "none"]

\* a variant of the report that passes the total first
onProgressCallSwapped(reports, supplied, current, total) ==
    IF supplied THEN Append(reports, <<total, current>>) ELSE reports

\* if (onProgress) onProgress(current, total): the reports made so far
onProgressCall(reports, supplied, current, total) ==
    IF supplied THEN Append(reports, <<current, total>>) ELSE reports

Thrown(msg) == [outcome |-> "throw", error |-> msg]

\* a variant of the chunk's end that takes all the remaining cells
endCellAll == mGrid.totalCells

\* const endCell = Math.min(startCell + chunkSize, totalCells)
endCell == IF mStart + chunkSize < mGrid.totalCells THEN mStart + chunkSize ELSE mGrid.totalCells

\* a variant of gridX that is shifted by the number of progress reports made
gridXOfReports(cellIndex) == (cellIndex + Len(mReports)) % mGrid.gridWidth

\* const gridX = cellIndex % gridWidth
gridXOf(cellIndex) == cellIndex % mGrid.gridWidth

\* a variant of gridY that divides by the number of rows
gridYByHeight(cellIndex) == cellIndex \div mGrid.gridHeight

\* const gridY = Math.floor(cellIndex / gridWidth)
gridYOf(cellIndex) == cellIndex \div mGrid.gridWidth

\* a variant of the cell's drawing that lays the tint first and the tile on top
cellDrawsTintFirst(bestTileIndex, tile, x, y, tileSize, regionColor, tintOpacity) ==
    (IF RLess(R(0), tintOpacity)
     THEN << [op |-> "fillRect", x |-> x, y |-> y, w |-> tileSize, h |-> tileSize,
              globalAlpha |-> tintOpacity, fillStyle |-> rgbToString(regionColor)] >>
     ELSE <<>>)
    \o
    << [op |-> "drawImage", tile |-> bestTileIndex,
        source |-> [width |-> tile.canvas.width, height |-> tile.canvas.height],
        x |-> x, y |-> y, w |-> tileSize, h |-> tileSize] >>

\* lines 136-144: what the cell draws on the mosaic canvas, in order:
\* drawImage(tile.canvas, x, y, tileSize, tileSize), then, if tintOpacity > 0,
\* fillRect(x, y, tileSize, tileSize) with globalAlpha = tintOpacity and
\* fillStyle = rgbToString(regionColor)
cellDraws(bestTileIndex, tile, x, y, tileSize, regionColor, tintOpacity) ==
    << [op |-> "drawImage", tile |-> bestTileIndex,
        source |-> [width |-> tile.canvas.width, height |-> tile.canvas.height],
        x |-> x, y |-> y, w |-> tileSize, h |-> tileSize] >>
    \o
    (IF RLess(R(0), tintOpacity)
     THEN << [op |-> "fillRect", x |-> x, y |-> y, w |-> tileSize, h |-> tileSize,
              globalAlpha |-> tintOpacity, fillStyle |-> rgbToString(regionColor)] >>
     ELSE <<>>)

\* a variant of the tint that leaves globalAlpha at tintOpacity
alphaAfterCellKept(alpha, tintOpacity) ==
    IF RLess(R(0), tintOpacity) THEN tintOpacity ELSE alpha

\* lines 139-144: globalAlpha after the cell: the tint sets it to tintOpacity
\* for its fillRect and back to 1
alphaAfterCell(alpha, tintOpacity) ==
    IF RLess(R(0), tintOpacity) THEN R(1) ELSE alpha

\* one pass of the inner loop's body (lines 123-146) for cellIndex; tileAlpha is
\* globalAlpha at the drawImage of the tile
cellOf(cellIndex) ==
    LET gridX == gridXOf(cellIndex)
        gridY == gridYOf(cellIndex)
        x == gridX * mIn.tileSize
        y == gridY * mIn.tileSize
        regionColor == getAverageColor(regionData(mIn.pattern, gridX, gridY, mIn.tileSize))
        tileColors == [k \in 1..Len(mPre.tiles) |-> mPre.tiles[k].averageColor]
        best == findClosestColor(regionColor, tileColors)
    IN [gridX |-> gridX, gridY |-> gridY, x |-> x, y |-> y,
        regionColor |-> regionColor,
        bestTileIndex |-> best.index,
        tinted |-> RLess(R(0), mIn.tintOpacity),
        tileAlpha |-> mAlpha,
        draws |-> IF best.index < Len(mPre.tiles)
                  THEN cellDraws(best.index, mPre.tiles[best.index + 1], x, y,
                                 mIn.tileSize, regionColor, mIn.tintOpacity)
                  ELSE <<>>]

--------------------------------------------------------------------------
(* Inputs of the mosaic checks *)

MaxImages == 2

TileImages ==
    { Image(2, 1, Pixel(255, 0, 0, 255)),
      Image(1, 1, Pixel(0, 0, 255, 255)),
      Image(0, 2, Pixel(255, 0, 0, 255)),
      Image(3, 0, Pixel(0, 0, 255, 255)) }

GoalImages ==
    { [w |-> 1, h |-> 1], [w |-> 2, h |-> 1], [w |-> 4, h |-> 1], [w |-> 1, h |-> 2] }

GoalPatterns ==
    { [px |-> 1, py |-> 0, p0 |-> 0], [px |-> 1, py |-> 1, p0 |-> 1] }

OutputWidths == {1, 2, 3}

TileSizes == {1, 2}

TintOpacities == {R(0), Norm(1, 2)}

\* the small runs: every combination of the values above
SmallRuns ==
    [images : SeqsUpTo(TileImages, MaxImages),
     tileSize : TileSizes,
     goal : GoalImages,
     pattern : GoalPatterns,
     outputWidth : OutputWidths,
     tintOpacity : TintOpacities,
     onProgress : {FALSE}]

\* two usable tile photos, one red and one blue
ExampleImages ==
    <<Image(2, 1, Pixel(255, 0, 0, 255)), Image(1, 1, Pixel(0, 0, 255, 255))>>

\* the runs of the grid examples: output widths 100 and 105 with tile size 10
\* on a wide goal image (a grid of 10 x 2 cells)
ExampleRuns ==
    [images : {ExampleImages},
     tileSize : {10},
     goal : {[w |-> 4, h |-> 1]},
     pattern : GoalPatterns,
     outputWidth : {100, 105},
     tintOpacity : TintOpacities,
     onProgress : {FALSE}]

\* runs of more than one chunk: a grid of 10 x 10 cells (exactly one chunk)
\* and one of 10 x 21 cells (two full chunks and a rest of ten cells)
ChunkRuns ==
    [images : {ExampleImages},
     tileSize : {1},
     goal : {[w |-> 1, h |-> 1], [w |-> 10, h |-> 21]},
     pattern : GoalPatterns,
     outputWidth : {10},
     tintOpacity : TintOpacities,
     onProgress : BOOLEAN]

MosaicIdle ==
    /\ mpc = "idle"
    /\ mIn = [images |-> <<>>, tileSize |-> 1, goal |-> [w |-> 1, h |-> 1],
              pattern |-> [px |-> 1, py |-> 0, p0 |-> 0], outputWidth |-> 1,
              tintOpacity |-> R(0), onProgress |-> FALSE]
    /\ mTiles = <<>>
    /\ mPre = NoResult
    /\ mGrid = NoGrid
    /\ mCanvases = 0
    /\ mStart = 0
    /\ mCell = 0
    /\ mPlaced = <<>>
    /\ mOut = NoResult
    /\ mSince = 0
    /\ mReports = <<>>
    /\ mPrev = NoResult
    /\ mAlpha = R(1)

\* the state in which preprocessTiles(images, tileSize) has just been called
MosaicInit ==
    /\ mpc = "preprocess"
    /\ mIn \in SmallRuns \cup ExampleRuns \cup ChunkRuns
    /\ mTiles = <<>>
    /\ mPre = NoResult
    /\ mGrid = NoGrid
    /\ mCanvases = 0
    /\ mStart = 0
    /\ mCell = 0
    /\ mPlaced = <<>>
    /\ mOut = NoResult
    /\ mSince = 0
    /\ mReports = <<>>
    /\ mPrev = NoResult
    /\ mAlpha = R(1)

--------------------------------------------------------------------------
(* Steps of preprocessTiles *)

\* one iteration of the loop: the tile of images[i] is pushed
PreprocessImage ==
    /\ mpc = "preprocess"
    /\ Len(mTiles) < Len(mIn.images)
    /\ mTiles' = Append(mTiles, preprocessOne(mIn.images, Len(mTiles), mIn.tileSize))
    /\ UNCHANGED <<avars, mSince, mReports, mPrev, mAlpha, mpc, mIn, mPre, mGrid, mCanvases, mStart, mCell, mPlaced, mOut, cvars, rvars, gvars>>

\* getContext('2d') returned null: throw new Error('Failed to get tile canvas context')
PreprocessNoContext ==
    /\ mpc = "preprocess"
    /\ Len(mTiles) < Len(mIn.images)
    /\ mPre' = Thrown("Failed to get tile canvas context")
    /\ mpc' = "failed"
    /\ UNCHANGED <<avars, mSince, mReports, mPrev, mAlpha, mIn, mTiles, mGrid, mCanvases, mStart, mCell, mPlaced, mOut, cvars, rvars, gvars>>

\* the loop is over: return tiles; the caller passes them on to generateMosaic
PreprocessReturn ==
    /\ mpc = "preprocess"
    /\ ~(Len(mTiles) < Len(mIn.images))
    /\ mPre' = [outcome |-> "value", tiles |-> mTiles]
    /\ mpc' = "generate"
    /\ UNCHANGED <<avars, mSince, mReports, mPrev, mAlpha, mIn, mTiles, mGrid, mCanvases, mStart, mCell, mPlaced, mOut, cvars, rvars, gvars>>

--------------------------------------------------------------------------
(* Steps of generateMosaic *)

\* lines 84-114: the grid, the goal canvas and the mosaic canvas
GenerateSetup ==
    /\ mpc = "generate"
    /\ mGrid' = gridOf(mIn.goal, mIn.outputWidth, mIn.tileSize)
    /\ mCanvases' = 2
    /\ mStart' = 0
    /\ mAlpha' = R(1)
    /\ mpc' = "loop"
    /\ UNCHANGED <<avars, mSince, mReports, mPrev, mIn, mTiles, mPre, mCell, mPlaced, mOut, cvars, rvars, gvars>>

\* a canvas gives no 2d context: imageToCanvas or line 99 throws with one canvas
\* created, line 106 with two
GenerateNoContext ==
    /\ mpc = "generate"
    /\ mGrid' = gridOf(mIn.goal, mIn.outputWidth, mIn.tileSize)
    /\ \E n \in {1, 2} :
          /\ mCanvases' = n
          /\ mOut' = Thrown(IF n = 1 THEN "Failed to get goal canvas context"
                            ELSE "Failed to get mosaic canvas context")
    /\ mpc' = "failed"
    /\ UNCHANGED <<avars, mSince, mReports, mPrev, mAlpha, mIn, mTiles, mPre, mStart, mCell, mPlaced, cvars, rvars, gvars>>

\* startCell < totalCells: await new Promise(resolve => setTimeout(resolve, 0))
ChunkYield ==
    /\ mpc = "loop"
    /\ mStart < mGrid.totalCells
    /\ mpc' = "await"
    /\ UNCHANGED <<avars, mSince, mReports, mPrev, mAlpha, mIn, mTiles, mPre, mGrid, mCanvases, mStart, mCell, mPlaced, mOut, cvars, rvars, gvars>>

\* the timer fires; the inner loop starts at cellIndex = startCell
ChunkResume ==
    /\ mpc = "await"
    /\ mCell' = mStart
    /\ mpc' = "cells"
    /\ mSince' = 0
    /\ UNCHANGED <<avars, mReports, mPrev, mAlpha, mIn, mTiles, mPre, mGrid, mCanvases, mStart, mPlaced, mOut, cvars, rvars, gvars>>

\* one cell: the region's colour, the closest tile, drawImage, the tint
Cell ==
    /\ mpc = "cells"
    /\ mCell < endCell
    /\ cellOf(mCell).bestTileIndex < Len(mPre.tiles)
    /\ mPlaced' = Append(mPlaced, cellOf(mCell))
    /\ mCell' = mCell + 1
    /\ mSince' = mSince + 1
    /\ mAlpha' = alphaAfterCell(mAlpha, mIn.tintOpacity)
    /\ UNCHANGED <<avars, mReports, mPrev, mpc, mIn, mTiles, mPre, mGrid, mCanvases, mStart, mOut, cvars, rvars, gvars>>

\* tiles[bestTileIndex] is undefined: reading tile.canvas throws a TypeError
CellNoTile ==
    /\ mpc = "cells"
    /\ mCell < endCell
    /\ ~(cellOf(mCell).bestTileIndex < Len(mPre.tiles))
    /\ mOut' = [outcome |-> "throw", error |-> "TypeError",
                bestTileIndex |-> cellOf(mCell).bestTileIndex]
    /\ mpc' = "failed"
    /\ UNCHANGED <<avars, mSince, mReports, mPrev, mAlpha, mIn, mTiles, mPre, mGrid, mCanvases, mStart, mCell, mPlaced, cvars, rvars, gvars>>

\* the inner loop is over: onProgress, then startCell += chunkSize
ChunkEnd ==
    /\ mpc = "cells"
    /\ ~(mCell < endCell)
    /\ mStart' = mStart + chunkSize
    /\ mpc' = "loop"
    /\ mReports' = onProgressCall(mReports, mIn.onProgress, Len(mPlaced), mGrid.totalCells)
    /\ UNCHANGED <<avars, mSince, mPrev, mAlpha, mIn, mTiles, mPre, mGrid, mCanvases, mCell, mPlaced, mOut, cvars, rvars, gvars>>

\* the chunk loop is over: return { canvas, gridWidth, gridHeight, actualWidth, actualHeight }
GenerateReturn ==
    /\ mpc = "loop"
    /\ ~(mStart < mGrid.totalCells)
    /\ mOut' = [outcome |-> "value",
                canvas |-> [width |-> mGrid.actualWidth, height |-> mGrid.actualHeight],
                gridWidth |-> mGrid.gridWidth, gridHeight |-> mGrid.gridHeight,
                actualWidth |-> mGrid.actualWidth, actualHeight |-> mGrid.actualHeight]
    /\ mpc' = "done"
    /\ UNCHANGED <<avars, mSince, mReports, mPrev, mAlpha, mIn, mTiles, mPre, mGrid, mCanvases, mStart, mCell, mPlaced, cvars, rvars, gvars>>

\* generateMosaic is called a second time with the same goal image, tiles and
\* config, with or without a progress callback
GenerateAgain ==
    /\ mpc = "done"
    /\ mPrev = NoResult
    /\ mPrev' = [outcome |-> "value", result |-> mOut, placed |-> mPlaced]
    /\ \E supplied \in BOOLEAN : mIn' = [mIn EXCEPT !.onProgress = supplied]
    /\ mGrid' = NoGrid
    /\ mCanvases' = 0
    /\ mStart' = 0
    /\ mCell' = 0
    /\ mPlaced' = <<>>
    /\ mOut' = NoResult
    /\ mSince' = 0
    /\ mReports' = <<>>
    /\ mpc' = "generate"
    /\ UNCHANGED <<avars, mTiles, mPre, mAlpha, cvars, rvars, gvars>>

--------------------------------------------------------------------------
(* easing.ts *)

linear(t) == t

easeOutCubic(t) == RSub(R(1), Cube(RSub(R(1), t)))

easeInCubic(t) == RMul(RMul(t, t), t)

easeInOutCubic(t) ==
    IF RLess(t, Norm(1, 2))
    THEN RMul(RMul(RMul(R(4), t), t), t)
    ELSE RSub(R(1), RDiv(Cube(RAdd(RMul(R(-2), t), R(2))), R(2)))

\* EASING_OPTIONS[name](t)
ease(name, t) ==
    CASE name = "linear" -> linear(t)
      [] name = "easeOutCubic" -> easeOutCubic(t)
      [] name = "easeInCubic" -> easeInCubic(t)
      [] name = "easeInOutCubic" -> easeInOutCubic(t)

--------------------------------------------------------------------------
(* gif.ts : renderZoomFrames *)

\* const frameCount = Math.round(duration * fps)
frameCountOf(config) == MathRound(RMul(config.duration, R(config.fps)))[1]

\* const frameDelay = Math.round(1000 / fps)
frameDelayOf(config) == MathRound(RDiv(R(1000), R(config.fps)))

\* a variant of the clamp that applies the lower bound before the upper one
clampUpperLast(crop, extent, cropSize) == MathMin(MathMax(R(0), crop), RSub(extent, cropSize))

\* a variant of the clamp whose upper bound forgets the crop's own size
clampToExtent(crop, extent, cropSize) == MathMax(R(0), MathMin(crop, extent))

\* Math.max(0, Math.min(cropX, mosaicCanvas.width - cropWidth))
clampCrop(crop, extent, cropSize) == MathMax(R(0), MathMin(crop, RSub(extent, cropSize)))

\* a variant of t that divides by the number of frames
timeOfCount(i, frameCount) == RDiv(R(i), R(frameCount))

\* const t = i / (frameCount - 1)
timeOf(i, frameCount) == RDiv(R(i), R(frameCount - 1))

\* lines 85-108: the crop rectangle and the canvas of frame i
frameOf(mosaic, config, i) ==
    LET focusX == RMul(config.focusPoint.x, R(mosaic.width))
        focusY == RMul(config.focusPoint.y, R(mosaic.height))
        t == timeOf(i, frameCountOf(config))
        easedT == ease(config.easing, t)
        currentZoom == RAdd(config.startZoom, RMul(RSub(R(1), config.startZoom), easedT))
        cropWidth == RDiv(R(config.width), currentZoom)
        cropHeight == RDiv(R(config.height), currentZoom)
        cropX == RSub(focusX, RDiv(cropWidth, R(2)))
        cropY == RSub(focusY, RDiv(cropHeight, R(2)))
    IN [i |-> i, t |-> t, zoom |-> currentZoom,
        cropWidth |-> cropWidth, cropHeight |-> cropHeight,
        cropX |-> clampCrop(cropX, R(mosaic.width), cropWidth),
        cropY |-> clampCrop(cropY, R(mosaic.height), cropHeight),
        width |-> config.width, height |-> config.height]

\* `if (onProgress && i % 5 === 0) onProgress(i + 1, frameCount)`
frameReport(reports, supplied, i, frameCount) ==
    IF supplied /\ i % 5 = 0 THEN Append(reports, <<i + 1, frameCount>>) ELSE reports

\* a variant of the loop test that runs the body once more
loopTestInclusive(i, frameCount) == i <= frameCount

\* the loop test i < frameCount
loopTest(i, frameCount) == i < frameCount

--------------------------------------------------------------------------
(* Inputs of the frame checks *)

MaxFps == 3

Durations == {Norm(1, 4), Norm(1, 2), R(1), Norm(3, 2)}

Easings == {"linear", "easeOutCubic", "easeInCubic", "easeInOutCubic"}

\* start zooms: the documented range (> 1) and the accepted values in (0, 1]
StartZooms == {Norm(1, 2), R(1), R(2), R(3)}

\* focus points, inside and outside the unit square
FocusPoints ==
    { [x |-> R(0), y |-> R(0)], [x |-> R(1), y |-> R(1)],
      [x |-> Norm(1, 2), y |-> Norm(1, 2)], [x |-> Norm(1, 4), y |-> R(1)],
      [x |-> Norm(3, 2), y |-> Norm(-1, 2)] }

Mosaics == { [width |-> 4, height |-> 4], [width |-> 6, height |-> 4] }

AnimWidths == {2, 6}

AnimHeights == {2, 6}

SmallConfigs ==
    [width : AnimWidths, height : AnimHeights, duration : Durations, fps : 1..MaxFps,
     startZoom : StartZooms, easing : Easings, focusPoint : FocusPoints]

\* the two timings of the frame-count property: 4 s at 20 fps and 2 s at 10 fps
ExampleConfigs ==
    [width : {6}, height : {2}, duration : {R(4)}, fps : {20},
     startZoom : {R(2)}, easing : {"linear"}, focusPoint : FocusPoints]
    \cup
    [width : {6}, height : {2}, duration : {R(2)}, fps : {10},
     startZoom : {R(3)}, easing : Easings, focusPoint : FocusPoints]

RenderIdle ==
    /\ rpc = "idle"
    /\ rIn = [mosaic |-> [width |-> 0, height |-> 0]]
    /\ rI = 0
    /\ rFrames = <<>>
    /\ rOut = NoResult
    /\ rPrev = NoResult
    /\ rSince = 0
    /\ rReports = <<>>

\* the state in which renderZoomFrames(mosaicCanvas, config) has just been called
RenderInit ==
    /\ rpc = "loop"
    /\ rIn \in [mosaic : Mosaics, config : SmallConfigs, onProgress : {TRUE}]
               \cup [mosaic : Mosaics, config : ExampleConfigs, onProgress : BOOLEAN]
    /\ rI = 0
    /\ rFrames = <<>>
    /\ rOut = NoResult
    /\ rPrev = NoResult
    /\ rSince = 0
    /\ rReports = <<>>

--------------------------------------------------------------------------
(* Steps of renderZoomFrames *)

\* one pass of the loop body for a frame index that does not yield (i % 10 # 0)
RenderFrame ==
    /\ rpc = "loop"
    /\ loopTest(rI, frameCountOf(rIn.config))
    /\ rI % 10 # 0
    /\ rFrames' = Append(rFrames, frameOf(rIn.mosaic, rIn.config, rI))
    /\ rI' = rI + 1
    /\ rSince' = rSince + 1
    /\ rReports' = frameReport(rReports, rIn.onProgress, rI, frameCountOf(rIn.config))
    /\ UNCHANGED <<avars, rpc, rIn, rOut, rPrev, cvars, mvars, gvars>>

\* one pass of the loop body with i % 10 = 0: the frame, then
\* await new Promise(resolve => setTimeout(resolve, 0))
RenderFrameYield ==
    /\ rpc = "loop"
    /\ loopTest(rI, frameCountOf(rIn.config))
    /\ rI % 10 = 0
    /\ rFrames' = Append(rFrames, frameOf(rIn.mosaic, rIn.config, rI))
    /\ rpc' = "await"
    /\ rSince' = rSince + 1
    /\ rReports' = frameReport(rReports, rIn.onProgress, rI, frameCountOf(rIn.config))
    /\ UNCHANGED <<avars, rIn, rI, rOut, rPrev, cvars, mvars, gvars>>

\* the timer fires: i++
RenderResume ==
    /\ rpc = "await"
    /\ rI' = rI + 1
    /\ rpc' = "loop"
    /\ rSince' = 0
    /\ UNCHANGED <<avars, rIn, rFrames, rOut, rPrev, rReports, cvars, mvars, gvars>>

\* frameCanvas.getContext('2d') returned null: throw
RenderNoContext ==
    /\ rpc = "loop"
    /\ loopTest(rI, frameCountOf(rIn.config))
    /\ rOut' = Thrown("Failed to get frame canvas context")
    /\ rpc' = "failed"
    /\ UNCHANGED <<avars, rSince, rReports, rIn, rI, rFrames, rPrev, cvars, mvars, gvars>>

\* the loop is over: the last progress report, then return { frames, frameDelay }
RenderReturn ==
    /\ rpc = "loop"
    /\ ~loopTest(rI, frameCountOf(rIn.config))
    /\ rReports' = onProgressCall(rReports, rIn.onProgress, frameCountOf(rIn.config),
                                  frameCountOf(rIn.config))
    /\ rOut' = [outcome |-> "value", frames |-> rFrames,
                frameDelay |-> frameDelayOf(rIn.config)]
    /\ rpc' = "returned"
    /\ UNCHANGED <<avars, rSince, rIn, rI, rFrames, rPrev, cvars, mvars, gvars>>

\* renderZoomFrames is called a second time with the same mosaic and config
RenderAgain ==
    /\ rpc = "returned"
    /\ rPrev = NoResult
    /\ rPrev' = rOut
    /\ rOut' = NoResult
    /\ rI' = 0
    /\ rFrames' = <<>>
    /\ rpc' = "loop"
    /\ rSince' = 0
    /\ rReports' = <<>>
    /\ UNCHANGED <<avars, rIn, cvars, mvars, gvars>>

--------------------------------------------------------------------------
(* gif.ts : generateGif and encodeGif *)

\* const MAX_GIF_SIZE = 16 * 1024 * 1024
MAX_GIF_SIZE == 16777216

\* a variant of the attempts table whose third step skips frames before it scales
attemptsSkipBeforeScale ==
    << [quality |-> 10, scale |-> R(1), skipFrames |-> 1],
       [quality |-> 20, scale |-> R(1), skipFrames |-> 1],
       [quality |-> 20, scale |-> R(1), skipFrames |-> 2],
       [quality |-> 20, scale |-> Norm(3, 4), skipFrames |-> 2],
       [quality |-> 30, scale |-> Norm(1, 2), skipFrames |-> 2] >>

\* the attempts table of generateGif
attempts ==
    << [quality |-> 10, scale |-> R(1), skipFrames |-> 1],
       [quality |-> 20, scale |-> R(1), skipFrames |-> 1],
       [quality |-> 20, scale |-> Norm(3, 4), skipFrames |-> 1],
       [quality |-> 20, scale |-> Norm(3, 4), skipFrames |-> 2],
       [quality |-> 30, scale |-> Norm(1, 2), skipFrames |-> 2] >>

\* the filter of reduceFrames on the frames lo..hi (1-based in the sequence,
\* 0-based in the code): those whose index i has i % keepEvery === 0, in
\* order; the range is split in halves to keep the evaluation shallow
RECURSIVE keptBetween(_, _, _, _)
keptBetween(frames, keepEvery, lo, hi) ==
    IF lo > hi THEN <<>>
    ELSE IF lo = hi THEN (IF (lo - 1) % keepEvery = 0 THEN <<frames[lo]>> ELSE <<>>)
    ELSE LET mid == (lo + hi) \div 2
         IN keptBetween(frames, keepEvery, lo, mid) \o keptBetween(frames, keepEvery, mid + 1, hi)

\* a variant of reduceFrames that keeps the last frame of every group of keepEvery
reduceFramesLastOfGroup(frames, keepEvery) ==
    [j \in 1..(Len(frames) \div keepEvery) |-> frames[j * keepEvery]]

\* frames.filter((_, i) => i % keepEvery === 0)
reduceFrames(frames, keepEvery) == keptBetween(frames, keepEvery, 1, Len(frames))

\* scaleFrames: every frame redrawn on a canvas of the rounded scaled size
scaleFrames(frames, scale) ==
    [k \in 1..Len(frames) |->
        [frames[k] EXCEPT !.width = MathRound(RMul(R(frames[k].width), scale))[1],
                          !.height = MathRound(RMul(R(frames[k].height), scale))[1]]]

\* a variant of the attempt's preparation that keeps the delay when it skips frames
processedOfSameDelay(frames, frameDelay, a) ==
    LET reduced == IF a.skipFrames > 1 THEN reduceFrames(frames, a.skipFrames) ELSE frames
    IN [frames |-> IF RLess(a.scale, R(1)) THEN scaleFrames(reduced, a.scale) ELSE reduced,
        delay |-> frameDelay]

\* lines 258-268: the frames and the delay attempt a (a record of `attempts`) encodes
processedOf(frames, frameDelay, a) ==
    LET reduced == IF a.skipFrames > 1 THEN reduceFrames(frames, a.skipFrames) ELSE frames
        delay == IF a.skipFrames > 1 THEN RMul(frameDelay, R(a.skipFrames)) ELSE frameDelay
    IN [frames |-> IF RLess(a.scale, R(1)) THEN scaleFrames(reduced, a.scale) ELSE reduced,
        delay |-> delay]

\* lines 283-286: the frames and the delay of the call after the loop
lastResortOf(frames, frameDelay) ==
    LET lastAttempt == attempts[Len(attempts)]
    IN [frames |-> scaleFrames(reduceFrames(frames, lastAttempt.skipFrames), lastAttempt.scale),
        delay |-> RMul(frameDelay, R(lastAttempt.skipFrames))]

\* what generateGif is about to hand to encodeGif, and with which quality
nextEncode ==
    IF gAttempt < Len(attempts)
    THEN [p |-> processedOf(rOut.frames, rOut.frameDelay, attempts[gAttempt + 1]),
          quality |-> attempts[gAttempt + 1].quality]
    ELSE [p |-> lastResortOf(rOut.frames, rOut.frameDelay),
          quality |-> attempts[Len(attempts)].quality]

\* the record of one encodeGif call: what it was given and how it ended.
\* loaded: the await of ensureGifJsLoaded and getWorkerBlobUrl was reached
\* (script load and worker fetch started) before the call ended.
encodeCall(outcome, size) ==
    [frames |-> Len(nextEncode.p.frames),
     delay |-> nextEncode.p.delay,
     quality |-> nextEncode.quality,
     sizeOfFrames |-> IF Len(nextEncode.p.frames) = 0 THEN <<>>
                      ELSE <<nextEncode.p.frames[1].width, nextEncode.p.frames[1].height>>,
     loaded |-> TRUE,
     outcome |-> outcome,
     size |-> size]

\* blob sizes tried: small, exactly the limit, one byte over
BlobSizes == {1, MAX_GIF_SIZE, MAX_GIF_SIZE + 1}

--------------------------------------------------------------------------
(* Inputs of the export checks *)

GifConfigs ==
    [width : AnimWidths, height : {0}, duration : Durations, fps : 1..MaxFps,
     startZoom : {R(2)}, easing : {"linear", "easeOutCubic"},
     focusPoint : {[x |-> Norm(1, 2), y |-> Norm(1, 2)]}]

GifIdle ==
    /\ gpc = "idle"
    /\ gAttempt = 0
    /\ gEnc = <<>>
    /\ gOut = NoResult

\* the state in which generateGif(mosaicCanvas, config) has just been called;
\* config has no height yet
GifInit ==
    /\ gpc = "start"
    /\ gAttempt = 0
    /\ gEnc = <<>>
    /\ gOut = NoResult
    /\ rpc = "idle"
    /\ rIn \in [mosaic : Mosaics, config : GifConfigs, onProgress : BOOLEAN]
    /\ rI = 0
    /\ rFrames = <<>>
    /\ rOut = NoResult
    /\ rPrev = NoResult
    /\ rSince = 0
    /\ rReports = <<>>

--------------------------------------------------------------------------
(* Steps of generateGif *)

\* lines 231-244: height from the mosaic's aspect ratio, then renderZoomFrames
GifStart ==
    /\ gpc = "start"
    /\ LET aspectRatio == RDiv(R(rIn.mosaic.height), R(rIn.mosaic.width))
           height == MathRound(RMul(R(rIn.config.width), aspectRatio))[1]
       IN rIn' = [rIn EXCEPT !.config.height = height]
    /\ rpc' = "loop"
    /\ gpc' = "render"
    /\ UNCHANGED <<avars, rSince, rReports, rI, rFrames, rOut, rPrev, gAttempt, gEnc, gOut, cvars, mvars>>

\* renderZoomFrames returned: the attempts loop starts with i = 0
GifRendered ==
    /\ gpc = "render"
    /\ rpc = "returned"
    /\ gAttempt' = 0
    /\ gpc' = "attempts"
    /\ UNCHANGED <<avars, rvars, gEnc, gOut, cvars, mvars>>

\* renderZoomFrames threw: generateGif rejects with the same error
GifRenderFailed ==
    /\ gpc = "render"
    /\ rpc = "failed"
    /\ gOut' = rOut
    /\ gpc' = "failed"
    /\ UNCHANGED <<avars, rvars, gAttempt, gEnc, cvars, mvars>>

\* an encodeGif call of the loop resolves with a blob within the limit: return blob
EncodeFits ==
    /\ gpc = "attempts"
    /\ gAttempt < Len(attempts)
    /\ Len(nextEncode.p.frames) > 0
    /\ \E size \in BlobSizes :
          /\ size <= MAX_GIF_SIZE
          /\ gEnc' = Append(gEnc, encodeCall("finished", size))
          /\ gOut' = [outcome |-> "value", blob |-> Len(gEnc) + 1, size |-> size]
    /\ gpc' = "done"
    /\ UNCHANGED <<avars, rvars, gAttempt, cvars, mvars>>

\* an encodeGif call of the loop resolves with a blob over the limit: i++
EncodeTooLarge ==
    /\ gpc = "attempts"
    /\ gAttempt < Len(attempts)
    /\ Len(nextEncode.p.frames) > 0
    /\ \E size \in BlobSizes :
          /\ ~(size <= MAX_GIF_SIZE)
          /\ gEnc' = Append(gEnc, encodeCall("finished", size))
    /\ gAttempt' = gAttempt + 1
    /\ UNCHANGED <<avars, rvars, gpc, gOut, cvars, mvars>>

\* a variant of the call after the loop that rejects a blob over the limit
EncodeLastResortChecked ==
    /\ gpc = "attempts"
    /\ ~(gAttempt < Len(attempts))
    /\ Len(nextEncode.p.frames) > 0
    /\ \E size \in BlobSizes :
          /\ gEnc' = Append(gEnc, encodeCall("finished", size))
          /\ gOut' = IF size <= MAX_GIF_SIZE
                     THEN [outcome |-> "value", blob |-> Len(gEnc) + 1, size |-> size]
                     ELSE Thrown("GIF too large")
          /\ gpc' = IF size <= MAX_GIF_SIZE THEN "done" ELSE "failed"
    /\ UNCHANGED <<avars, rvars, gAttempt, cvars, mvars>>

\* the call after the loop: its blob is returned whatever its size
EncodeLastResort ==
    /\ gpc = "attempts"
    /\ ~(gAttempt < Len(attempts))
    /\ Len(nextEncode.p.frames) > 0
    /\ \E size \in BlobSizes :
          /\ gEnc' = Append(gEnc, encodeCall("finished", size))
          /\ gOut' = [outcome |-> "value", blob |-> Len(gEnc) + 1, size |-> size]
    /\ gpc' = "done"
    /\ UNCHANGED <<avars, rvars, gAttempt, cvars, mvars>>

\* encodeGif rejects: the script or the worker fails to load, or gif.js aborts
EncodeRejects ==
    /\ gpc = "attempts"
    /\ Len(nextEncode.p.frames) > 0
    /\ \E why \in {"Failed to load gif.js", "Failed to fetch worker script",
                   "GIF encoding aborted"} :
          /\ gEnc' = Append(gEnc, encodeCall(why, 0))
          /\ gOut' = Thrown(why)
    /\ gpc' = "failed"
    /\ UNCHANGED <<avars, rvars, gAttempt, cvars, mvars>>

\* encodeGif with no frames: after the loads, `frames[0].width` in the promise
\* executor throws a TypeError, which rejects the promise
EncodeNoFrames ==
    /\ gpc = "attempts"
    /\ Len(nextEncode.p.frames) = 0
    /\ gEnc' = Append(gEnc, encodeCall("TypeError", 0))
    /\ gOut' = Thrown("TypeError")
    /\ gpc' = "failed"
    /\ UNCHANGED <<avars, rvars, gAttempt, cvars, mvars>>

--------------------------------------------------------------------------
(* App : the mosaic generateMosaic returned is exported *)

\* the runs of the whole pipeline: the chunked runs, and runs without tiles
PipelineRuns == ChunkRuns \cup {[r EXCEPT !.images = <<>>] : r \in ExampleRuns}

\* the GIF settings of the pipeline runs: 2 s at 10 fps, 4 s at 20 fps, and a
\* quarter of a second at 1 fps
ExportConfigs ==
    [width : {6}, height : {0}, duration : {Norm(1, 4)}, fps : {1},
     startZoom : {R(2)}, easing : {"linear"},
     focusPoint : {[x |-> Norm(1, 2), y |-> Norm(1, 2)]}]
    \cup
    [width : {6}, height : {0}, duration : {R(2)}, fps : {10},
     startZoom : {R(2)}, easing : {"easeOutCubic"},
     focusPoint : {[x |-> Norm(1, 2), y |-> Norm(1, 2)]}]
    \cup
    [width : {6}, height : {0}, duration : {R(4)}, fps : {20},
     startZoom : {R(3)}, easing : {"linear"},
     focusPoint : {[x |-> Norm(1, 2), y |-> Norm(1, 2)]}]

\* the state in which preprocessTiles has just been called on a pipeline run
\* or on one of the grid examples
MosaicTwiceInit ==
    /\ mpc = "preprocess"
    /\ mIn \in PipelineRuns \cup ExampleRuns
    /\ mTiles = <<>>
    /\ mPre = NoResult
    /\ mGrid = NoGrid
    /\ mCanvases = 0
    /\ mStart = 0
    /\ mCell = 0
    /\ mPlaced = <<>>
    /\ mOut = NoResult
    /\ mSince = 0
    /\ mReports = <<>>
    /\ mPrev = NoResult
    /\ mAlpha = R(1)

\* the state in which preprocessTiles has just been called on a pipeline run
PipelineInit ==
    /\ mpc = "preprocess"
    /\ mIn \in PipelineRuns
    /\ mTiles = <<>>
    /\ mPre = NoResult
    /\ mGrid = NoGrid
    /\ mCanvases = 0
    /\ mStart = 0
    /\ mCell = 0
    /\ mPlaced = <<>>
    /\ mOut = NoResult
    /\ mSince = 0
    /\ mReports = <<>>
    /\ mPrev = NoResult
    /\ mAlpha = R(1)

\* handleGenerateMosaic stored result.canvas as mosaicCanvas; handleExportGif
\* calls generateGif(mosaicCanvas, {...gifSettings, easing, focusPoint})
ExportGif ==
    /\ mpc = "done"
    /\ gpc = "idle"
    /\ \E config \in ExportConfigs :
          rIn' = [mosaic |-> mOut.canvas, config |-> config, onProgress |-> TRUE]
    /\ gpc' = "start"
    /\ UNCHANGED <<avars, rpc, rI, rFrames, rOut, rPrev, rSince, rReports, gAttempt, gEnc, gOut, cvars, mvars>>

--------------------------------------------------------------------------
(* App and UploadPanel : the page's state and its handlers *)

\* null.  A canvas, a tile set and a Blob are named by the number of the
\* handleGenerateMosaic run that made them (a Blob: the canvas it was rendered
\* from), so that Null is 0
Null == 0

\* the most files one drop or one file selection holds
MaxDropped == 11

\* the most handleGenerateMosaic runs that are started
MaxRuns == 2

\* the File types dropped or selected
FileTypes == {"image/png", "text/plain"}

\* a drop or a selection: some files that are not images followed by some that are
DroppedFiles ==
    {[k \in 1..(w + v) |-> [type |-> IF k <= w THEN "text/plain" ELSE "image/png"]] :
        w \in 0..1, v \in 0..MaxDropped}

\* isValidImageFile(file)
isValidImageFile(file) ==
    file.type \in {"image/jpeg", "image/jpg", "image/png", "image/webp"}

\* the test of handleTilesDrop and handleTilesFileChange without its upper limit
tilesAcceptedAnyCount(files) == Len(files) > 0

\* `files.length > 0 && files.length <= 10`
tilesAccepted(files) == Len(files) > 0 /\ Len(files) <= 10

\* `tilePhotos.filter((_, i) => i !== index)`, index 0-based
withoutTile(photos, index) ==
    [k \in 1..(Len(photos) - 1) |-> IF k <= index THEN photos[k] ELSE photos[k + 1]]

\* canGenerate
canGenerate ==
    goalImage # Null /\ Len(tilePhotos) >= 1 /\ Len(tilePhotos) <= 10

\* canExport
canExport == mosaicCanvas # Null

\* `disabled={!canGenerate || isGenerating}` of the Generate Mosaic button
generateDisabled == ~canGenerate \/ isGenerating

\* `disabled={!canExport || isExporting}` of the Export GIF button, which is
\* rendered with the GifExporter only while mosaicCanvas is set
exportDisabled == mosaicCanvas = Null \/ ~canExport \/ isExporting

\* the Reset button is rendered while `mosaicCanvas || gifBlob`
resetShown == mosaicCanvas # Null \/ gifBlob # Null

\* the state of the page when it is first rendered
AppIdle ==
    /\ goalImage = Null
    /\ tilePhotos = <<>>
    /\ mosaicCanvas = Null
    /\ isGenerating = FALSE
    /\ preprocessedTiles = Null
    /\ isExporting = FALSE
    /\ gifBlob = Null
    /\ genPc = "idle"
    /\ genRun = 0
    /\ expPc = "idle"
    /\ expMosaic = Null
    /\ runs = 0
    /\ lastGen = [run |-> 0, outcome |-> "none"]

genState == <<mosaicCanvas, isGenerating, preprocessedTiles, genPc, genRun, runs, lastGen>>
expState == <<isExporting, expPc, expMosaic>>
otherParts == <<cvars, mvars, rvars, gvars>>

\* handleGoalDrop, handleGoalFileChange: the first file, when it is an image
GoalChosen ==
    /\ \E files \in DroppedFiles :
          /\ Len(files) > 0
          /\ isValidImageFile(files[1])
          /\ goalImage' = 1
    /\ UNCHANGED <<tilePhotos, gifBlob, genState, expState, otherParts>>

\* the remove button of the goal image: onGoalImageChange(null)
GoalRemoved ==
    /\ goalImage # Null
    /\ goalImage' = Null
    /\ UNCHANGED <<tilePhotos, gifBlob, genState, expState, otherParts>>

\* handleTilesDrop
TilesDrop ==
    /\ \E dropped \in DroppedFiles :
          LET files == SelectSeq(dropped, isValidImageFile)
          IN  /\ tilesAccepted(files)
              /\ tilePhotos' = files
    /\ UNCHANGED <<goalImage, gifBlob, genState, expState, otherParts>>

\* handleTilesFileChange
TilesFileChange ==
    /\ \E selected \in DroppedFiles :
          LET files == SelectSeq(selected, isValidImageFile)
          IN  /\ tilesAccepted(files)
              /\ tilePhotos' = files
    /\ UNCHANGED <<goalImage, gifBlob, genState, expState, otherParts>>

\* removeTile(index), from the remove button of a tile shown
RemoveTile ==
    /\ \E index \in 0..(Len(tilePhotos) - 1) :
          tilePhotos' = withoutTile(tilePhotos, index)
    /\ UNCHANGED <<goalImage, gifBlob, genState, expState, otherParts>>

\* handleGenerateMosaic up to its first await, from the Generate Mosaic button
GenerateClicked ==
    /\ ~generateDisabled
    /\ canGenerate
    /\ runs < MaxRuns
    /\ isGenerating' = TRUE
    /\ mosaicCanvas' = Null
    /\ gifBlob' = Null
    /\ runs' = runs + 1
    /\ genRun' = runs + 1
    /\ genPc' = "loadGoal"
    /\ UNCHANGED <<goalImage, tilePhotos, preprocessedTiles, lastGen, expState, otherParts>>

\* a variant of the failure path of handleGenerateMosaic without the finally block
GenerateFailedNoFinally ==
    /\ genPc' = "idle"
    /\ lastGen' = [run |-> genRun, outcome |-> "failed"]
    /\ UNCHANGED <<goalImage, tilePhotos, mosaicCanvas, isGenerating, preprocessedTiles,
                   gifBlob, genRun, runs, expState, otherParts>>

\* the catch and finally blocks of handleGenerateMosaic
GenerateFailed ==
    /\ isGenerating' = FALSE
    /\ genPc' = "idle"
    /\ lastGen' = [run |-> genRun, outcome |-> "failed"]
    /\ UNCHANGED <<goalImage, tilePhotos, mosaicCanvas, preprocessedTiles, gifBlob,
                   genRun, runs, expState, otherParts>>

\* `await loadImageFromFile(goalImage)` settles
GoalLoaded ==
    /\ genPc = "loadGoal"
    /\ \/ /\ genPc' = "loadTiles"
          /\ UNCHANGED <<goalImage, tilePhotos, mosaicCanvas, isGenerating,
                         preprocessedTiles, gifBlob, genRun, runs, lastGen,
                         expState, otherParts>>
       \/ GenerateFailed

\* `await Promise.all(tilePhotos.map(loadImageFromFile))` settles; on success
\* preprocessTiles is called, and runs to its end before the next await
TilesLoaded ==
    /\ genPc = "loadTiles"
    /\ \/ /\ genPc' = "preprocess"
          /\ UNCHANGED <<goalImage, tilePhotos, mosaicCanvas, isGenerating,
                         preprocessedTiles, gifBlob, genRun, runs, lastGen,
                         expState, otherParts>>
       \/ GenerateFailed

\* `await preprocessTiles(...)` settles; on success setPreprocessedTiles(tiles)
\* and generateMosaic is called
TilesPreprocessed ==
    /\ genPc = "preprocess"
    /\ \/ /\ preprocessedTiles' = genRun
          /\ genPc' = "generate"
          /\ UNCHANGED <<goalImage, tilePhotos, mosaicCanvas, isGenerating, gifBlob,
                         genRun, runs, lastGen, expState, otherParts>>
       \/ GenerateFailed

\* `await generateMosaic(...)` settles; on success setMosaicCanvas(result.canvas),
\* then the finally block
MosaicGenerated ==
    /\ genPc = "generate"
    /\ \/ /\ mosaicCanvas' = genRun
          /\ isGenerating' = FALSE
          /\ genPc' = "idle"
          /\ lastGen' = [run |-> genRun, outcome |-> "done"]
          /\ UNCHANGED <<goalImage, tilePhotos, preprocessedTiles, gifBlob,
                         genRun, runs, expState, otherParts>>
       \/ GenerateFailed

\* handleExportGif up to its await, from the Export GIF button
ExportClicked ==
    /\ ~exportDisabled
    /\ mosaicCanvas # Null
    /\ isExporting' = TRUE
    /\ gifBlob' = Null
    /\ expMosaic' = mosaicCanvas
    /\ expPc' = "generateGif"
    /\ UNCHANGED <<goalImage, tilePhotos, genState, otherParts>>

\* `await generateGif(mosaicCanvas, ...)` settles: setGifBlob(blob) on success,
\* the catch block otherwise, and the finally block
GifGenerated ==
    /\ expPc = "generateGif"
    /\ \/ gifBlob' = expMosaic
       \/ UNCHANGED gifBlob
    /\ isExporting' = FALSE
    /\ expPc' = "idle"
    /\ UNCHANGED <<goalImage, tilePhotos, genState, expMosaic, otherParts>>

\* handleReset, confirmed
Reset ==
    /\ resetShown
    /\ goalImage' = Null
    /\ tilePhotos' = <<>>
    /\ mosaicCanvas' = Null
    /\ gifBlob' = Null
    /\ preprocessedTiles' = Null
    /\ UNCHANGED <<isGenerating, genPc, genRun, runs, lastGen, expState, otherParts>>

--------------------------------------------------------------------------
(* Specifications *)

\* findClosestColor on every target and palette
ColorNext == FindClosest

InitColor == ColorInit /\ MosaicIdle /\ RenderIdle /\ GifIdle /\ AppIdle

SpecColor == InitColor /\ [][ColorNext]_vars

\* getAverageColor on every buffer
AverageNext == GetAverage

InitAverage == AverageInit /\ MosaicIdle /\ RenderIdle /\ GifIdle /\ AppIdle

SpecAverage == InitAverage /\ [][AverageNext]_vars

\* preprocessTiles, then generateMosaic on its tiles
MosaicNext ==
    \/ PreprocessImage
    \/ PreprocessNoContext
    \/ PreprocessReturn
    \/ GenerateSetup
    \/ GenerateNoContext
    \/ ChunkYield
    \/ ChunkResume
    \/ Cell
    \/ CellNoTile
    \/ ChunkEnd
    \/ GenerateReturn

InitMosaic == ColorIdle /\ MosaicInit /\ RenderIdle /\ GifIdle /\ AppIdle

SpecMosaic == InitMosaic /\ [][MosaicNext]_vars

\* generateMosaic, called once and once more with the same inputs
TwiceNext ==
    \/ MosaicNext
    \/ GenerateAgain

InitTwice == ColorIdle /\ MosaicTwiceInit /\ RenderIdle /\ GifIdle /\ AppIdle

SpecMosaicTwice == InitTwice /\ [][TwiceNext]_vars

\* renderZoomFrames, called once and once more with the same inputs
FramesNext ==
    \/ RenderFrame
    \/ RenderFrameYield
    \/ RenderResume
    \/ RenderNoContext
    \/ RenderReturn
    \/ RenderAgain

InitFrames == ColorIdle /\ MosaicIdle /\ RenderInit /\ GifIdle /\ AppIdle

SpecFrames == InitFrames /\ [][FramesNext]_vars

\* generateGif: renderZoomFrames, then the encodeGif attempts
GifNext ==
    \/ GifStart
    \/ RenderFrame
    \/ RenderFrameYield
    \/ RenderResume
    \/ RenderNoContext
    \/ RenderReturn
    \/ GifRendered
    \/ GifRenderFailed
    \/ EncodeFits
    \/ EncodeTooLarge
    \/ EncodeLastResort
    \/ EncodeRejects
    \/ EncodeNoFrames

InitGif == ColorIdle /\ MosaicIdle /\ GifInit /\ AppIdle

SpecGif == InitGif /\ [][GifNext]_vars

\* the pipeline: preprocessTiles, generateMosaic, then generateGif on the mosaic
PipelineNext ==
    \/ MosaicNext
    \/ ExportGif
    \/ GifNext

InitPipeline == ColorIdle /\ PipelineInit /\ RenderIdle /\ GifIdle /\ AppIdle

SpecPipeline == InitPipeline /\ [][PipelineNext]_vars

\* the page: uploads, Generate Mosaic, Export GIF and Reset in any order; every
\* awaited step settles
AppNext ==
    \/ GoalChosen
    \/ GoalRemoved
    \/ TilesDrop
    \/ TilesFileChange
    \/ RemoveTile
    \/ GenerateClicked
    \/ GoalLoaded
    \/ TilesLoaded
    \/ TilesPreprocessed
    \/ MosaicGenerated
    \/ ExportClicked
    \/ GifGenerated
    \/ Reset

InitApp == ColorIdle /\ MosaicIdle /\ RenderIdle /\ GifIdle /\ AppIdle

SpecApp ==
    /\ InitApp
    /\ [][AppNext]_vars
    /\ WF_vars(GoalLoaded)
    /\ WF_vars(TilesLoaded)
    /\ WF_vars(TilesPreprocessed)
    /\ WF_vars(MosaicGenerated)
    /\ WF_vars(GifGenerated)

--------------------------------------------------------------------------
(* Rounding, stated without Math.round *)

\* the integer n is x rounded to the nearest integer, ties upwards
IsRounded(n, x) ==
    /\ RLeq(RSub(R(n), Norm(1, 2)), x)
    /\ RLess(x, RAdd(R(n), Norm(1, 2)))

--------------------------------------------------------------------------
(* Properties of findClosestColor (SpecColor) *)

PaletteIndices == 0..(Len(cPalette) - 1)

DistanceTo(j) == colorDistance(cTarget, cPalette[j + 1])

\* C1: on a non-empty palette findClosestColor returns an index i whose colour
\* is at least as close to the target as every palette entry, and every entry
\* before i is strictly farther: the lowest index achieving the minimum.
C1_LowestIndexOfMinimum ==
    (cpc = "returned" /\ Len(cPalette) > 0) =>
        /\ cResult.outcome = "value"
        /\ cResult.index \in PaletteIndices
        /\ \A j \in PaletteIndices : RLeq(DistanceTo(cResult.index), DistanceTo(j))
        /\ \A j \in PaletteIndices :
              j < cResult.index => RLess(DistanceTo(cResult.index), DistanceTo(j))

\* C1 witness: the palette [C, C] with target C has been searched and gave index 0
C1_Witness ==
    /\ cpc = "returned"
    /\ Len(cPalette) = 2
    /\ cPalette[1] = cTarget
    /\ cPalette[2] = cTarget
    /\ cResult.index = 0

\* C3: findClosestColor called with an empty palette fails with an InvalidInput
\* error instead of returning an index.
C3_EmptyPaletteFails ==
    (cpc = "returned" /\ Len(cPalette) = 0) =>
        cResult.outcome = "throw" /\ cResult.error = "InvalidInput"

--------------------------------------------------------------------------
(* Properties of getAverageColor (SpecAverage) *)

\* C19: getAverageColor called on an empty pixel buffer fails with an
\* InvalidInput error instead of returning a colour.
C19_EmptyBufferFails ==
    (cpc = "averaged" /\ Len(cData) = 0) =>
        cAverage.outcome = "throw" /\ cAverage.error = "InvalidInput"

\* the total of channel ch over the first n samples of the buffer
RECURSIVE TotalTo(_, _)
TotalTo(ch, n) == IF n = 0 THEN 0 ELSE TotalTo(ch, n - 1) + cData[n][ch]

\* the integer-valued number c is the mean of channel ch rounded to nearest
IsRoundedMean(c, ch) ==
    /\ c[2] = 1
    /\ IsRounded(c[1], RDiv(R(TotalTo(ch, Len(cData))), R(Len(cData))))

\* C20: on a non-empty buffer getAverageColor returns per channel the mean of
\* that channel over all samples rounded to the nearest integer, whatever the
\* alpha values; on a buffer of identical pixels (r, g, b) it returns (r, g, b).
C20_RoundedMean ==
    (cpc = "averaged" /\ Len(cData) > 0) =>
        /\ cAverage.outcome = "value"
        /\ IsRoundedMean(cAverage.color.r, "r")
        /\ IsRoundedMean(cAverage.color.g, "g")
        /\ IsRoundedMean(cAverage.color.b, "b")
        /\ (\A i \in 1..Len(cData) : cData[i] = cData[1]) =>
              cAverage.color = RGB(R(cData[1].r), R(cData[1].g), R(cData[1].b))

\* C20 witness: the mean of a buffer of two different samples, one of them
\* transparent, was rounded upwards in the red channel
C20_Witness ==
    /\ cpc = "averaged"
    /\ Len(cData) = 2
    /\ cData[1].a # cData[2].a
    /\ TotalTo("r", 2) = 1
    /\ cAverage.color.r = R(1)

--------------------------------------------------------------------------
(* Properties of preprocessTiles and generateMosaic (SpecMosaic) *)

\* the grid generateMosaic computes from the run's inputs
RunGrid == gridOf(mIn.goal, mIn.outputWidth, mIn.tileSize)

DegenerateGrid == RunGrid.gridWidth < 1 \/ RunGrid.gridHeight < 1

\* C2: whenever gridWidth or gridHeight is below 1, generateMosaic fails with
\* InvalidConfig before any canvas is created or any cell is processed: it
\* creates no canvas, never enters its loop and never returns a result.  (A
\* run that ended on a missing 2d context is left aside.)
C2_DegenerateGridRejected ==
    (DegenerateGrid /\ mOut.outcome # "throw") =>
        /\ mCanvases = 0
        /\ mPlaced = <<>>
        /\ mpc \in {"preprocess", "generate", "failed"}
        /\ mOut.outcome # "value"

ZeroSized(image) == image.w = 0 \/ image.h = 0

BadImages == {i \in 1..Len(mIn.images) : ZeroSized(mIn.images[i])}

\* C6: if any input image has zero width or height, preprocessTiles fails with
\* an ImageProcessingError naming the offending index and returns no tile
\* list: no tile is made of a zero-sized image and no list is returned.
C6_AllOrNothing ==
    (BadImages # {}) =>
        /\ \A i \in BadImages : Len(mTiles) < i
        /\ mPre.outcome # "value"
        /\ (mPre.outcome = "throw" /\ Len(mTiles) + 1 \in BadImages) =>
              mPre.error = "ImageProcessingError"

\* the colour of an image's content as an RGB value
ColourOf(image) == RGB(R(image.col.r), R(image.col.g), R(image.col.b))

\* C13: preprocessTiles returns one tile per input image, in the order of the
\* images: tile i is made of image i (its canvas is tileSize x tileSize, its
\* crop is the centred square of the image's shorter side, its averageColor is
\* the colour of image i's pixels), and the tile generateMosaic draws for a
\* palette index is the tile at that index.
C13_TilesInImageOrder ==
    (mPre.outcome = "value") =>
        /\ Len(mPre.tiles) = Len(mIn.images)
        /\ \A i \in 1..Len(mPre.tiles) :
              LET tile == mPre.tiles[i]
                  image == mIn.images[i]
              IN /\ tile.originalFile = i - 1
                 /\ tile.canvas.width = mIn.tileSize
                 /\ tile.canvas.height = mIn.tileSize
                 /\ Len(tile.canvas.data) = mIn.tileSize * mIn.tileSize
                 /\ RLeq(tile.crop.size, R(image.w)) /\ RLeq(tile.crop.size, R(image.h))
                 /\ tile.crop.size \in {R(image.w), R(image.h)}
                 /\ RAdd(RMul(R(2), tile.crop.sx), tile.crop.size) = R(image.w)
                 /\ RAdd(RMul(R(2), tile.crop.sy), tile.crop.size) = R(image.h)
                 /\ ~ZeroSized(image) => tile.averageColor = ColourOf(image)
        /\ \A k \in 1..Len(mPlaced) :
              /\ mPlaced[k].bestTileIndex < Len(mPre.tiles)
              /\ \A j \in 1..Len(mPre.tiles) :
                    RLeq(colorDistance(mPlaced[k].regionColor,
                                       mPre.tiles[mPlaced[k].bestTileIndex + 1].averageColor),
                         colorDistance(mPlaced[k].regionColor, mPre.tiles[j].averageColor))

\* C13 witness: two usable images of different colours and shapes have been
\* preprocessed, and a cell has been given the second one's tile
C13_Witness ==
    /\ mPre.outcome = "value"
    /\ Len(mIn.images) = 2
    /\ ~ZeroSized(mIn.images[1]) /\ ~ZeroSized(mIn.images[2])
    /\ mIn.images[1].w # mIn.images[1].h
    /\ mPre.tiles[1].averageColor # mPre.tiles[2].averageColor
    /\ \E k \in 1..Len(mPlaced) : mPlaced[k].bestTileIndex = 1

\* generateMosaic has computed its grid
GridKnown == mpc \in {"loop", "await", "cells", "done"}

\* C12: gridWidth is outputWidth / tileSize rounded down and gridHeight is
\* round(outputWidth * height / width) / tileSize rounded down; the mosaic
\* canvas is gridWidth*tileSize by gridHeight*tileSize, so actualWidth <=
\* outputWidth and outputWidth - actualWidth < tileSize; output widths 100 and
\* 105 with tile size 10 both give gridWidth 10.
C12_GridFloor ==
    GridKnown =>
        /\ mGrid.gridWidth * mIn.tileSize <= mIn.outputWidth
        /\ mIn.outputWidth < (mGrid.gridWidth + 1) * mIn.tileSize
        /\ IsRounded(mGrid.outputHeight,
                     RDiv(R(mIn.outputWidth * mIn.goal.h), R(mIn.goal.w)))
        /\ mGrid.gridHeight * mIn.tileSize <= mGrid.outputHeight
        /\ mGrid.outputHeight < (mGrid.gridHeight + 1) * mIn.tileSize
        /\ mGrid.actualWidth = mGrid.gridWidth * mIn.tileSize
        /\ mGrid.actualHeight = mGrid.gridHeight * mIn.tileSize
        /\ mGrid.actualWidth <= mIn.outputWidth
        /\ mIn.outputWidth - mGrid.actualWidth < mIn.tileSize
        /\ (mIn.outputWidth \in {100, 105} /\ mIn.tileSize = 10) => mGrid.gridWidth = 10
        /\ (mpc = "done") =>
              /\ mOut.canvas = [width |-> mGrid.gridWidth * mIn.tileSize,
                                height |-> mGrid.gridHeight * mIn.tileSize]
              /\ mOut.gridWidth = mGrid.gridWidth
              /\ mOut.gridHeight = mGrid.gridHeight

\* C12 witness: a run with output width 105 and tile size 10 has returned a
\* mosaic 100 pixels wide, 5 pixels narrower than asked for
C12_Witness ==
    /\ mpc = "done"
    /\ mIn.outputWidth = 105
    /\ mIn.tileSize = 10
    /\ mOut.gridWidth = 10
    /\ mOut.actualWidth = 100

\* C16: generateMosaic visits the cells in row-major order, across chunk
\* boundaries too: the first cell is (0, 0), each next cell is the right
\* neighbour or, at the end of a row, the first cell of the next row; every
\* cell is drawn at (gridX*tileSize, gridY*tileSize); and a run that returns
\* has processed each of the gridWidth*gridHeight cells exactly once.
C16_RowMajor ==
    /\ \A k \in 1..Len(mPlaced) :
          LET c == mPlaced[k]
          IN /\ c.gridX \in 0..(mGrid.gridWidth - 1)
             /\ c.gridY \in 0..(mGrid.gridHeight - 1)
             /\ c.x = c.gridX * mIn.tileSize
             /\ c.y = c.gridY * mIn.tileSize
             /\ (k = 1) => (c.gridX = 0 /\ c.gridY = 0)
             /\ (k > 1) =>
                   LET b == mPlaced[k - 1]
                   IN \/ (c.gridY = b.gridY /\ c.gridX = b.gridX + 1)
                      \/ (b.gridX = mGrid.gridWidth - 1 /\ c.gridX = 0
                            /\ c.gridY = b.gridY + 1)
    /\ (mpc = "done") =>
          /\ Len(mPlaced) = mGrid.gridWidth * mGrid.gridHeight
          /\ \A gx \in 0..(mGrid.gridWidth - 1), gy \in 0..(mGrid.gridHeight - 1) :
                Cardinality({k \in 1..Len(mPlaced) :
                                mPlaced[k].gridX = gx /\ mPlaced[k].gridY = gy}) = 1

\* C16 witness: a grid of 10 x 21 cells has been traversed to the end, the
\* 101st cell (the first of the second chunk) being (0, 10)
C16_Witness ==
    /\ mpc = "done"
    /\ mGrid.gridWidth = 10
    /\ mGrid.gridHeight = 21
    /\ Len(mPlaced) = 210
    /\ mPlaced[101].gridX = 0
    /\ mPlaced[101].gridY = 10
    /\ mPlaced[210].x = 9 * mIn.tileSize
    /\ mPlaced[210].y = 20 * mIn.tileSize

\* everything drawn on the mosaic canvas so far, in the order of the calls
RECURSIVE DrawsBetween(_, _)
DrawsBetween(lo, hi) ==
    IF lo > hi THEN <<>>
    ELSE IF lo = hi THEN mPlaced[lo].draws
    ELSE LET mid == (lo + hi) \div 2
         IN DrawsBetween(lo, mid) \o DrawsBetween(mid + 1, hi)

DrawLog == DrawsBetween(1, Len(mPlaced))

\* the CSS colour of the goal image in the cell whose corner is (x, y); the
\* goal images tried have one colour per cell
GoalStyleAt(x, y) ==
    LET c == goalCell(mIn.pattern, x \div mIn.tileSize, y \div mIn.tileSize)
    IN "rgb(" \o ToString(c.r) \o ", " \o ToString(c.g) \o ", " \o ToString(c.b) \o ")"

SameRect(a, b) == a.x = b.x /\ a.y = b.y /\ a.w = b.w /\ a.h = b.h

\* C17: a cell's tint is drawn right after that cell's tile and before the
\* next cell's tile, over exactly that cell's tileSize x tileSize square, with
\* the cell's region-average colour at tintOpacity; with tintOpacity = 0 no
\* tint is drawn at all and each cell holds its tile, copied at its own size.
C17_TintFollowsTile ==
    LET log == DrawLog
    IN \A j \in 1..Len(log) :
          /\ log[j].w = mIn.tileSize /\ log[j].h = mIn.tileSize
          /\ (log[j].op = "drawImage") =>
                /\ log[j].source = [width |-> mIn.tileSize, height |-> mIn.tileSize]
                /\ (j > 1 /\ log[j - 1].op = "drawImage") => ~RLess(R(0), mIn.tintOpacity)
                /\ RLess(R(0), mIn.tintOpacity) =>
                      (j < Len(log) /\ log[j + 1].op = "fillRect")
          /\ (log[j].op = "fillRect") =>
                /\ RLess(R(0), mIn.tintOpacity)
                /\ j > 1
                /\ log[j - 1].op = "drawImage"
                /\ SameRect(log[j], log[j - 1])
                /\ log[j].globalAlpha = mIn.tintOpacity
                /\ log[j].fillStyle = GoalStyleAt(log[j].x, log[j].y)

\* C17 witness: a tinted run of several cells has ended, tile and tint
\* alternating, with cells of both goal colours
C17_Witness ==
    /\ mpc = "done"
    /\ RLess(R(0), mIn.tintOpacity)
    /\ Len(mPlaced) >= 2
    /\ Len(DrawLog) = 2 * Len(mPlaced)
    /\ DrawLog[2].op = "fillRect"
    /\ DrawLog[3].op = "drawImage"
    /\ DrawLog[2].fillStyle # DrawLog[4].fillStyle

\* a run without tint has ended: one drawImage per cell and nothing else
C17_WitnessNoTint ==
    /\ mpc = "done"
    /\ mIn.tintOpacity = R(0)
    /\ Len(mPlaced) >= 2
    /\ Len(DrawLog) = Len(mPlaced)

\* C30: in generateMosaic the context's globalAlpha is 1 at the moment every
\* tile is drawn: the tint of a cell sets globalAlpha to tintOpacity for its
\* own fill only and restores 1 before the next cell, so that no tile is drawn
\* semi-transparently, whatever the tint opacity and the size of the grid.
C30_TilesDrawnOpaque ==
    /\ \A k \in 1..Len(mPlaced) :
          /\ mPlaced[k].tileAlpha = R(1)
          /\ \A d \in 1..Len(mPlaced[k].draws) :
                mPlaced[k].draws[d].op = "fillRect" =>
                    mPlaced[k].draws[d].globalAlpha = mIn.tintOpacity
    /\ mAlpha = R(1)

\* C30 witness: the second tile of a run tinted at opacity 1/2 was drawn, after
\* the tint of the first cell, with globalAlpha 1
C30_Witness ==
    /\ mIn.tintOpacity = Norm(1, 2)
    /\ Len(mPlaced) >= 2
    /\ Len(mPlaced[1].draws) = 2
    /\ mPlaced[1].draws[2].globalAlpha = Norm(1, 2)
    /\ mPlaced[2].tileAlpha = R(1)

--------------------------------------------------------------------------
(* Properties of renderZoomFrames (SpecFrames) *)

FrameCount == frameCountOf(rIn.config)

FrameIndices == 1..Len(rFrames)

MosaicWidth == R(rIn.mosaic.width)

MosaicHeight == R(rIn.mosaic.height)

\* C4: frame i has t = 0 when frameCount = 1 and t = i / (frameCount - 1)
\* otherwise; no frame's t comes from a division by zero.
C4_TimeParameter ==
    \A k \in FrameIndices :
        /\ ~IsNaN(rFrames[k].t)
        /\ rFrames[k].t = IF FrameCount = 1 THEN R(0) ELSE Norm(k - 1, FrameCount - 1)

\* C7: with focusPoint (0, 0) the clamped cropX and cropY of every frame are
\* exactly 0.
C7_TopLeftFocus ==
    (rIn.config.focusPoint = [x |-> R(0), y |-> R(0)]) =>
        \A k \in FrameIndices : rFrames[k].cropX = R(0) /\ rFrames[k].cropY = R(0)

\* C8: with focusPoint (1, 1), in every frame with cropWidth < mosaic width
\* cropX = mosaicWidth - cropWidth, and in every frame with cropHeight < mosaic
\* height cropY = mosaicHeight - cropHeight.
C8_BottomRightFocus ==
    (rIn.config.focusPoint = [x |-> R(1), y |-> R(1)]) =>
        \A k \in FrameIndices :
            /\ RLess(rFrames[k].cropWidth, MosaicWidth) =>
                  rFrames[k].cropX = RSub(MosaicWidth, rFrames[k].cropWidth)
            /\ RLess(rFrames[k].cropHeight, MosaicHeight) =>
                  rFrames[k].cropY = RSub(MosaicHeight, rFrames[k].cropHeight)

\* C8 witness: a frame rendered with focus (1, 1) whose crop is narrower than
\* the mosaic and sits flush with the mosaic's right edge, away from 0
C8_Witness ==
    /\ rIn.config.focusPoint = [x |-> R(1), y |-> R(1)]
    /\ \E k \in FrameIndices :
          /\ RLess(rFrames[k].cropWidth, MosaicWidth)
          /\ RLess(R(0), rFrames[k].cropX)
          /\ RAdd(rFrames[k].cropX, rFrames[k].cropWidth) = MosaicWidth

\* C9: in every frame whose cropWidth exceeds the mosaic width the clamped
\* cropX is 0 whatever the focus point, never the negative mosaicWidth -
\* cropWidth; likewise cropY when cropHeight exceeds the mosaic height.
C9_InvertedRangeClampsToZero ==
    \A k \in FrameIndices :
        /\ RLess(MosaicWidth, rFrames[k].cropWidth) => rFrames[k].cropX = R(0)
        /\ RLess(MosaicHeight, rFrames[k].cropHeight) => rFrames[k].cropY = R(0)

\* C9 witness: a frame wider than the mosaic, focused on the right edge, so
\* that both the unclamped cropX and the upper bound differ from 0
C9_Witness ==
    /\ rIn.config.focusPoint.x = R(1)
    /\ \E k \in FrameIndices :
          /\ RLess(MosaicWidth, rFrames[k].cropWidth)
          /\ RLess(rFrames[k].cropWidth, RMul(R(2), MosaicWidth))
          /\ rFrames[k].cropX = R(0)

\* the crop of frame k lies inside the mosaic
CropInside(k) ==
    /\ RLeq(R(0), rFrames[k].cropX)
    /\ RLeq(RAdd(rFrames[k].cropX, rFrames[k].cropWidth), MosaicWidth)
    /\ RLeq(R(0), rFrames[k].cropY)
    /\ RLeq(RAdd(rFrames[k].cropY, rFrames[k].cropHeight), MosaicHeight)

\* the crop of frame k is no larger than the mosaic
CropFits(k) ==
    /\ RLeq(rFrames[k].cropWidth, MosaicWidth)
    /\ RLeq(rFrames[k].cropHeight, MosaicHeight)

\* C25: in every frame whose crop fits the mosaic (cropWidth <= mosaic width
\* and cropHeight <= mosaic height), whatever the focus point, inside or
\* outside [0, 1]: 0 <= cropX, cropX + cropWidth <= mosaic width, 0 <= cropY
\* and cropY + cropHeight <= mosaic height.
C25_CropInsideMosaic ==
    \A k \in FrameIndices : CropFits(k) => CropInside(k)

\* C25 witness: a frame focused outside the unit square, at (3/2, -1/2), whose
\* crop is smaller than the mosaic and was moved to its right and top edges
C25_Witness ==
    /\ rIn.config.focusPoint = [x |-> Norm(3, 2), y |-> Norm(-1, 2)]
    /\ \E k \in FrameIndices :
          /\ RLess(rFrames[k].cropWidth, MosaicWidth)
          /\ RLess(rFrames[k].cropHeight, MosaicHeight)
          /\ RAdd(rFrames[k].cropX, rFrames[k].cropWidth) = MosaicWidth
          /\ rFrames[k].cropY = R(0)

\* C10: renderZoomFrames returns exactly round(duration * fps) frames, in
\* increasing frame-index order, each of size width x height (4 s at 20 fps
\* gives 80 frames, 2 s at 10 fps gives 20); a second call with the same
\* inputs returns the same frames.
C10_FrameSequence ==
    (rpc = "returned") =>
        /\ rOut.outcome = "value"
        /\ IsRounded(Len(rOut.frames), RMul(rIn.config.duration, R(rIn.config.fps)))
        /\ \A k \in 1..Len(rOut.frames) :
              /\ rOut.frames[k].i = k - 1
              /\ rOut.frames[k].width = rIn.config.width
              /\ rOut.frames[k].height = rIn.config.height
        /\ (rIn.config.duration = R(4) /\ rIn.config.fps = 20) => Len(rOut.frames) = 80
        /\ (rIn.config.duration = R(2) /\ rIn.config.fps = 10) => Len(rOut.frames) = 20
        /\ (rPrev # NoResult) => rOut = rPrev

\* C10 witness: the 80 frames of 4 s at 20 fps have been returned twice
C10_Witness ==
    /\ rpc = "returned"
    /\ rPrev # NoResult
    /\ Len(rOut.frames) = 80
    /\ Len(rPrev.frames) = 80

\* C11: each of the four easing functions maps 0 to 0 and 1 to 1, and for
\* every frameCount >= 2 the zoom of frame 0 is startZoom and the zoom of the
\* final frame (index frameCount - 1) is 1.
C11_ZoomEndpoints ==
    /\ \A name \in Easings : ease(name, R(0)) = R(0) /\ ease(name, R(1)) = R(1)
    /\ (FrameCount >= 2) =>
          \A k \in FrameIndices :
              /\ (k = 1) => rFrames[k].zoom = rIn.config.startZoom
              /\ (k = FrameCount) => rFrames[k].zoom = R(1)

\* C11 witness: a returned sequence of at least three frames that starts at a
\* zoom other than 1, ends at zoom 1 and passes a zoom strictly in between
C11_Witness ==
    /\ rpc = "returned"
    /\ FrameCount >= 3
    /\ Len(rFrames) = FrameCount
    /\ rIn.config.easing = "easeInOutCubic"
    /\ RLess(R(1), rIn.config.startZoom)
    /\ rFrames[1].zoom = rIn.config.startZoom
    /\ rFrames[FrameCount].zoom = R(1)
    /\ \E k \in FrameIndices :
          RLess(R(1), rFrames[k].zoom) /\ RLess(rFrames[k].zoom, rIn.config.startZoom)

--------------------------------------------------------------------------
(* Properties of generateGif (SpecGif) *)

\* C5: a configuration whose frame count round(duration * fps) is zero is
\* rejected with InvalidConfig before any frame canvas is created or any
\* encoder work starts; an empty frame sequence is never returned by
\* renderZoomFrames and never passed on to encodeGif.
C5_ZeroFramesRejected ==
    (gpc # "start" /\ frameCountOf(rIn.config) = 0) =>
        /\ rOut.outcome # "value"
        /\ gEnc = <<>>
        /\ (gpc = "failed" => gOut = Thrown("InvalidConfig"))

\* the delay of the export: 1000 / fps rounded to the nearest integer
IsFrameDelay(delay) ==
    /\ delay[2] = 1
    /\ IsRounded(delay[1], RDiv(R(1000), R(rIn.config.fps)))

\* C14 as stated: the delay attached to every frame handed to the encoder
\* during an export is round(1000 / fps) milliseconds, in every encodeGif call
\* of that export.
C14_DelayIsFrameDelay ==
    \A k \in 1..Len(gEnc) : IsFrameDelay(gEnc[k].delay)

\* the step of the attempts table the k-th encodeGif call of an export uses
StepOfCall(k) == attempts[IF k < Len(attempts) THEN k ELSE Len(attempts)]

\* C14 amended: renderZoomFrames returns the delay round(1000 / fps), and all
\* frames of one encodeGif call carry one delay: round(1000 / fps) in the
\* steps that keep every frame, and skipFrames times that in the steps (and
\* the final call) that keep every skipFrames-th frame.
C14_DelayPerCall ==
    /\ (rOut.outcome = "value") => IsFrameDelay(rOut.frameDelay)
    /\ \A k \in 1..Len(gEnc) :
          /\ gEnc[k].delay[2] = 1
          /\ gEnc[k].delay[1] % StepOfCall(k).skipFrames = 0
          /\ IsFrameDelay(R(gEnc[k].delay[1] \div StepOfCall(k).skipFrames))

\* C14 witness: an export whose fourth encodeGif call, the first that skips
\* frames, was made with twice the delay of the first call
C14_Witness ==
    /\ Len(gEnc) >= 4
    /\ IsFrameDelay(gEnc[1].delay)
    /\ gEnc[4].delay = RMul(R(2), gEnc[1].delay)
    /\ gEnc[4].frames < gEnc[1].frames

\* the degradation steps as listed: quality 10; quality 20; scale 0.75; skip
\* every other frame; quality 30 with scale 0.5
ListedSteps ==
    << [quality |-> 10, scale |-> R(1), keepEvery |-> 1],
       [quality |-> 20, scale |-> R(1), keepEvery |-> 1],
       [quality |-> 20, scale |-> Norm(3, 4), keepEvery |-> 1],
       [quality |-> 20, scale |-> Norm(3, 4), keepEvery |-> 2],
       [quality |-> 30, scale |-> Norm(1, 2), keepEvery |-> 2] >>

\* the k-th encodeGif call was made with the settings of the listed step:
\* its quality, every keepEvery-th of the rendered frames, at its scale
CallUsesStep(k, step) ==
    /\ gEnc[k].quality = step.quality
    /\ gEnc[k].frames = (Len(rOut.frames) + step.keepEvery - 1) \div step.keepEvery
    /\ gEnc[k].frames > 0 =>
          /\ IsRounded(gEnc[k].sizeOfFrames[1], RMul(R(rIn.config.width), step.scale))
          /\ IsRounded(gEnc[k].sizeOfFrames[2], RMul(R(rIn.config.height), step.scale))

\* C23: generateGif tries its degradation steps strictly in the listed order:
\* the k-th encodeGif call (k <= 5) uses the k-th listed step and is made only
\* after every earlier call produced a blob over 16 MB, so no call follows a
\* step whose output fits and no step is skipped; a blob returned from one of
\* the five steps is the blob of the first step whose size is <= 16 MB.
C23_StepsInOrder ==
    /\ \A k \in 1..Len(gEnc) :
          /\ k <= Len(ListedSteps) => CallUsesStep(k, ListedSteps[k])
          /\ \A j \in 1..(k - 1) :
                gEnc[j].outcome = "finished" /\ gEnc[j].size > MAX_GIF_SIZE
    /\ (gpc = "done" /\ Len(gEnc) <= Len(ListedSteps)) =>
          /\ gOut.outcome = "value"
          /\ gOut.blob = Len(gEnc)
          /\ gOut.size = gEnc[Len(gEnc)].size
          /\ gEnc[Len(gEnc)].size <= MAX_GIF_SIZE

\* C23 witness: the first three steps gave blobs over 16 MB, and the blob of
\* the fourth, which skips every other frame of three or more, was returned
C23_Witness ==
    /\ gpc = "done"
    /\ Len(gEnc) = 4
    /\ gOut.blob = 4
    /\ gEnc[3].frames >= 3
    /\ gEnc[4].frames < gEnc[3].frames

\* generateGif has settled
GifSettled == gpc \in {"done", "failed"}

\* generateGif can only have failed because renderZoomFrames threw or because
\* its last encodeGif call rejected
FailedForCause ==
    (gpc = "failed") =>
        \/ rOut.outcome = "throw"
        \/ Len(gEnc) > 0 /\ gEnc[Len(gEnc)].outcome # "finished"

\* after five blobs over 16 MB, the blob of a sixth call with the last step's
\* settings is returned
LastResortReturned ==
    (Len(gEnc) > Len(ListedSteps) /\ gEnc[Len(gEnc)].outcome = "finished") =>
        /\ \A j \in 1..Len(ListedSteps) : gEnc[j].size > MAX_GIF_SIZE
        /\ CallUsesStep(Len(gEnc), ListedSteps[Len(ListedSteps)])
        /\ gpc = "done"
        /\ gOut.outcome = "value"
        /\ gOut.blob = Len(gEnc)
        /\ gOut.size = gEnc[Len(gEnc)].size

\* the steps generateGif can still take at most: the call of renderZoomFrames,
\* two per frame left to render (the frame, the timer) and its return, the
\* start of the attempts loop, and the encodeGif calls left of six
GifMeasure ==
    (IF gpc = "start" THEN 1 ELSE 0)
    + (IF rpc \in {"idle", "loop", "await"}
       THEN 1 + 2 * (frameCountOf(rIn.config) - rI) - (IF rpc = "await" THEN 1 ELSE 0)
       ELSE 0)
    + (IF gpc \in {"start", "render"} THEN 1 ELSE 0)
    + (IF GifSettled THEN 0 ELSE 7 - Len(gEnc))

\* C24: generateGif always terminates, with a blob when renderZoomFrames
\* returns and every encodeGif call completes: every step it takes uses up one
\* of a bounded number of steps, it never calls encodeGif more than six times,
\* it fails only when renderZoomFrames throws or an encodeGif call rejects,
\* and after five blobs over 16 MB it returns the blob of one more call with
\* the last step's settings, whatever its size.
C24_TerminatesWithBlob ==
    /\ [](GifMeasure >= 0)
    /\ [][GifMeasure' < GifMeasure]_vars
    /\ [](Len(gEnc) <= 6)
    /\ []FailedForCause
    /\ []LastResortReturned

\* the listed step of the k-th encodeGif call of an export; the call after the
\* five steps repeats the last
ListedStepOf(k) == ListedSteps[IF k < Len(ListedSteps) THEN k ELSE Len(ListedSteps)]

\* the playback length frames * delay of the k-th call is within one delay of
\* that call of the rendered length, and its delay is keepEvery times the
\* rendered delay
KeepsLength(k) ==
    LET rendered == Len(rOut.frames) * rOut.frameDelay[1]
        encoded == gEnc[k].frames * gEnc[k].delay[1]
    IN /\ gEnc[k].delay = R(ListedStepOf(k).keepEvery * rOut.frameDelay[1])
       /\ Abs(encoded - rendered) < gEnc[k].delay[1]

\* C29: frame skipping preserves the playback length: in every encodeGif call
\* of an export, (frames encoded) * (delay) differs from (frames rendered) *
\* (rendered delay) by less than one delay of that call; a step that keeps
\* every k-th frame encodes with k times the rendered delay, and the frames it
\* hands over are those of index 0, k, 2k, ... in order.
C29_SkippingKeepsLength ==
    /\ \A k \in 1..Len(gEnc) : KeepsLength(k)
    /\ (gpc = "attempts") =>
          LET keepEvery == ListedStepOf(Len(gEnc) + 1).keepEvery
              kept == nextEncode.p.frames
          IN /\ Len(kept) = (Len(rOut.frames) + keepEvery - 1) \div keepEvery
             /\ \A j \in 1..Len(kept) : kept[j].i = (j - 1) * keepEvery

\* C29 witness: the fourth call encoded three of five rendered frames with
\* twice the rendered delay, one rendered delay longer than the original
C29_Witness ==
    /\ Len(gEnc) >= 4
    /\ Len(rOut.frames) = 5
    /\ gEnc[4].frames = 3
    /\ gEnc[4].delay = RMul(R(2), rOut.frameDelay)
    /\ gEnc[4].frames * gEnc[4].delay[1] = 6 * rOut.frameDelay[1]

\* C24 witness: all five steps gave blobs over 16 MB and the sixth call's
\* blob, also over 16 MB, was returned
C24_Witness ==
    /\ gpc = "done"
    /\ Len(gEnc) = 6
    /\ gOut.blob = 6
    /\ gOut.size > MAX_GIF_SIZE

--------------------------------------------------------------------------
(* Properties of the pipeline (SpecPipeline) *)

\* C15: both loops yield at a bounded cadence: generateMosaic never processes
\* more than 100 cells, and renderZoomFrames never renders more than 10 frames,
\* without yielding in between.
C15_BoundedCadence ==
    /\ mSince <= 100
    /\ rSince <= 10

\* C15 witness: generateMosaic processed a chunk of exactly 100 cells after
\* its last yield, and renderZoomFrames is yielding after ten frames in a row
C15_Witness ==
    /\ mpc = "done"
    /\ mSince = 100
    /\ rpc = "await"
    /\ rSince = 10

\* a sequence of reports (done, total) with 0 <= done <= total, the given total
\* in each, and done never decreasing
WellFormed(reports, total) ==
    \A k \in 1..Len(reports) :
        /\ reports[k][2] = total
        /\ 0 <= reports[k][1]
        /\ reports[k][1] <= total
        /\ k > 1 => reports[k - 1][1] <= reports[k][1]

\* the last report is (total, total)
EndsComplete(reports, total) ==
    /\ Len(reports) > 0
    /\ reports[Len(reports)] = <<total, total>>

\* C22: the progress reports of generateMosaic and of renderZoomFrames are
\* well-formed: each is (done, total) with 0 <= done <= total and the run's
\* total, done never decreases from one report to the next, and when a callback
\* is supplied and total >= 1 the last report of a completed run is (total, total).
C22_ProgressWellFormed ==
    /\ WellFormed(mReports, mGrid.totalCells)
    /\ (mpc = "done" /\ mIn.onProgress /\ mGrid.totalCells >= 1)
          => EndsComplete(mReports, mGrid.totalCells)
    /\ rpc # "idle" =>
          /\ WellFormed(rReports, frameCountOf(rIn.config))
          /\ (rpc = "returned" /\ rIn.onProgress /\ frameCountOf(rIn.config) >= 1)
                => EndsComplete(rReports, frameCountOf(rIn.config))

\* C22 witness: generateMosaic has completed 210 cells with three reports, and
\* renderZoomFrames has returned 20 frames with five
C22_Witness ==
    /\ mpc = "done"
    /\ mReports = << <<100, 210>>, <<200, 210>>, <<210, 210>> >>
    /\ rpc = "returned"
    /\ rReports = << <<1, 20>>, <<6, 20>>, <<11, 20>>, <<16, 20>>, <<20, 20>> >>

--------------------------------------------------------------------------
(* Properties of two runs of generateMosaic (SpecMosaicTwice) *)

--------------------------------------------------------------------------
(* Properties of the page (SpecApp) *)

\* C21: once a run of handleGenerateMosaic has failed (an image did not load,
\* or preprocessTiles or generateMosaic threw), the page holds no mosaic canvas,
\* no GIF blob, and not the tiles that the failed run preprocessed.
C21_FailedRunLeavesNothing ==
    (genPc = "idle" /\ lastGen.outcome = "failed") =>
        /\ mosaicCanvas = Null
        /\ gifBlob = Null
        /\ preprocessedTiles # lastGen.run

\* C26: whenever gifBlob is set it was rendered from the mosaic canvas the
\* page holds: in no state is gifBlob set while mosaicCanvas is null or is
\* another mosaic, whatever the order of Generate Mosaic, Export GIF and Reset.
C26_BlobOfCurrentMosaic ==
    gifBlob # Null => mosaicCanvas = gifBlob

\* C27: the busy flags are always released: once isGenerating is true it
\* becomes false again, and likewise isExporting, whether the run succeeds or
\* throws, provided every awaited step settles; and while a flag is true its
\* button is disabled, so that no second run of the handler starts.
C27_BusyFlagsReleased ==
    /\ isGenerating ~> ~isGenerating
    /\ isExporting ~> ~isExporting
    /\ [][isGenerating => ~GenerateClicked]_vars
    /\ [][isExporting => ~ExportClicked]_vars

\* C27 witness: an export has run and the generation after it has failed, and
\* both flags are false again
C27_Witness ==
    /\ lastGen = [run |-> 2, outcome |-> "failed"]
    /\ expMosaic = 1
    /\ ~isGenerating
    /\ ~isExporting

==========================================================================
